---- MODULE Spec2Model ----
(***************************************************************************)
(* Model of the grokgates terminal front end (src/static/ascii_animator.js) *)
(*                                                                         *)
(*  - the StateReconciler: updateCurrentConversation, fed by the push      *)
(*    channel (socket 'update') and by the poll (fetchConversations);      *)
(*  - the AnimationScheduler: ASCIIAnimator.startAnimation/stopAnimation/  *)
(*    animate with the host's requestAnimationFrame queue.                 *)
(*                                                                         *)
(* Text is modelled by TLA+ strings; Len, \o and SubSeq apply to them, a    *)
(* character is a string of length one, a grid is a sequence of strings.   *)
(***************************************************************************)
EXTENDS Integers, Sequences, FiniteSets, TLC

VARIABLES
    \* ---- StateReconciler (module-level globals and window/localStorage)
    currentMessages,        \* Map msgId -> msg                   (line 375)
    convRegion,             \* children of #current-conversation  (line 415)
    currentConversationId,  \* window.currentConversationId       (line 412)
    processedMessageIds,    \* window.processedMessageIds         (line 411)
    lsConversation,         \* localStorage grokgates-current-conversation
    lsProcessed,            \* localStorage grokgates-processed-messages
    historyRegion,          \* children of #conversation-history  (line 416)
    snapshot,               \* argument of the latest updateCurrentConversation call
    applyOutcome,           \* "none" | "returned" | "threw": how that call ended
    autoScroll,             \* let autoScroll                     (line 374)
    scrollTop,              \* #current-conversation.scrollTop    (line 449)
    clientHeight,           \* #current-conversation.clientHeight (line 449)
    \* ---- AnimationScheduler (ASCIIAnimator fields and the host)
    originalLines,          \* this.originalLines                 (line 5)
    lines,                  \* this.lines: the padded base grid   (line 10)
    currentAnimation,       \* this.currentAnimation              (line 14)
    animationId,            \* this.animationId                   (line 13)
    animationFrame,         \* this.animationFrame                (line 12)
    rafQueue,               \* host: pending requestAnimationFrame callbacks
    nextHandle,             \* host: next requestAnimationFrame handle
    artRegion,              \* rows shown in #ascii-art           (line 84)
    now,                    \* performance.now(), in milliseconds
    lastCall,               \* the latest scheduler event: [op, animation]
    mobileRegion,           \* text of #ascii-art-mobile, "" without it (line 306)
    lastDisplay,            \* writes of the latest displayFrame call: [art, mobile]
    \* ---- the director (the host's timers set by randomAnimation)
    timers,                 \* host: pending setTimeout callbacks [id, fn, at]
    nextTimer,              \* host: next timer id
    hasMobileArt,           \* the page has an element #ascii-art-mobile (line 324)
    displayWrappers,        \* closures set around asciiAnimator.displayFrame (line 327)
    \* ---- the regions the push handler rewrites
    beaconRegion,           \* children of #beacon-feed          (line 417)
    planRegion,             \* parts of #dominance-plan          (line 418)
    beaconCountText,        \* text of #beacon-count             (line 420)
    phaseWidget,            \* text and class of #beacon-phase   (line 426)
    urgeWidget,             \* text and class of #urge-level     (line 427)
    \* ---- the transport: the socket, the poll and the art fetch
    connected,              \* socket.connected: the push channel is open (line 359)
    connectionStatus,       \* text of #connection-status        (line 419)
    pendingPolls,           \* host: requests of /api/conversations in flight
    artFetch,               \* host: requests of /api/ascii-art, [issued, pending, outcome]
    \* ---- observation
    event                   \* the latest transport event observed: [channel, data, threw]

reconcilerVars == <<currentMessages, convRegion, currentConversationId,
                    processedMessageIds, lsConversation, lsProcessed,
                    historyRegion, snapshot, applyOutcome,
                    autoScroll, scrollTop, clientHeight>>

schedulerVars == <<originalLines, lines, currentAnimation, animationId, animationFrame,
                   rafQueue, nextHandle, artRegion, now, lastCall,
                   mobileRegion, lastDisplay>>

directorVars == <<timers, nextTimer, hasMobileArt, displayWrappers>>

regionVars == <<beaconRegion, planRegion, beaconCountText, phaseWidget, urgeWidget>>

transportVars == <<connected, connectionStatus, pendingPolls, artFetch>>

vars == <<reconcilerVars, schedulerVars, directorVars, regionVars, transportVars, event>>

-----------------------------------------------------------------------------
(* Bounds of the model                                                     *)

\* longest messages array of a snapshot
MaxMsgs == 2

\* requestAnimationFrame handles the host hands out
MaxHandle == 3

\* the clock advances in steps of TickMs milliseconds, MaxTicks times
TickMs == 25

MaxTicks == 3

\* the interval timer of the poll is followed for MaxPolls intervals
MaxPolls == 2

\* the height of one node of the conversation region, in pixels
NodeHeight == 60

\* the largest frame index the effects are computed for
MaxFrame == 12

\* the number of rows of the tallest grid
TallHeight == 22

\* longest beacon feed of an update event
MaxFeed == 2

-----------------------------------------------------------------------------
(* Values                                                                  *)

\* JS null / undefined / '' for an id: all falsy, none equal to a real id
NoId == ""

charAt(str, i) == SubSeq(str, i, i)

\* ' '.repeat(n) and the like
RECURSIVE repeat(_, _)
repeat(ch, n) == IF n <= 0 THEN "" ELSE ch \o repeat(ch, n - 1)

\* line.padEnd(w, ' ')
padEnd(line, w) == line \o repeat(" ", w - Len(line))

\* a missing msg.agent: the template literal `${undefined}` yields this text
Undefined == "undefined"

ConvIds == {"c1", "c2"}

Digit(d) == CASE d = 0 -> "0" [] d = 1 -> "1" [] d = 2 -> "2" [] d = 3 -> "3"
              [] d = 4 -> "4" [] d = 5 -> "5" [] d = 6 -> "6" [] d = 7 -> "7"
              [] d = 8 -> "8" [] d = 9 -> "9"

\* String(n) for a non-negative integer, as template interpolation prints it
RECURSIVE digits(_)
digits(n) == IF n < 10 THEN Digit(n) ELSE digits(n \div 10) \o Digit(n % 10)

\* the timestamps of the model's messages, printed once
printedStamps == [n \in {1000, 2000} |-> digits(n)]

NumStr(n) == IF n \in DOMAIN printedStamps THEN printedStamps[n] ELSE digits(n)

\* mutant: the key is the agent alone
msgIdOf_AgentOnly(msg) == msg.agent

\* const msgId = `${msg.agent}-${msg.timestamp}`
msgIdOf(msg) == msg.agent \o "-" \o NumStr(msg.timestamp)

\* msg.agent.toLowerCase(), for the agents of the model
toLowerCase(agent) == CASE agent = "OBSERVER" -> "observer"
                        [] agent = "EGO" -> "ego"
                        [] agent = "SYSTEM" -> "system"

displayAgent(agent) == IF agent = "OBSERVER" THEN "OBSERVER_LABEL"
                       ELSE IF agent = "SYSTEM" THEN "SYSTEM_LABEL"
                       ELSE "EGO_LABEL"

\* well-formed messages: three composite keys (two agents, two timestamps); one
\* key comes with growing content and a same-length rewrite ("Ho" for "Hi")
ValidMsgs ==
    [agent : {"OBSERVER"}, timestamp : {1000}, content : {"Hi", "Ho", "Hi there"}]
    \cup [agent : {"EGO"}, timestamp : {1000}, content : {"Hi"}]
    \cup [agent : {"OBSERVER"}, timestamp : {2000}, content : {"Hi"}]

\* a message whose agent field is missing
BadMsg == [agent |-> Undefined, timestamp |-> 1000, content |-> "Hi"]

\* messages arrays: composite keys are unique within a conversation (spec 3)
UniqueKeys(ms) == \A i, j \in 1..Len(ms) : i # j => msgIdOf(ms[i]) # msgIdOf(ms[j])

\* the messages arrays of the snapshots: well-formed ones up to MaxMsgs long,
\* and one that holds the malformed message
MsgSeqs ==
    {ms \in UNION {[1..n -> ValidMsgs] : n \in 0..MaxMsgs} : UniqueKeys(ms)}
    \cup {<<BadMsg>>}

\* data.current of a snapshot: null, or {id, messages?}
NullConversation == [isNull |-> TRUE, id |-> NoId, hasMessages |-> FALSE, messages |-> <<>>]

\* a conversation object may also come without an id
Conversations ==
    {NullConversation}
    \cup [isNull : {FALSE}, id : ConvIds, hasMessages : {FALSE}, messages : {<<>>}]
    \cup [isNull : {FALSE}, id : ConvIds \cup {NoId}, hasMessages : {TRUE}, messages : MsgSeqs]

keysOf(conversation) == {msgIdOf(conversation.messages[i]) : i \in 1..Len(conversation.messages)}

-----------------------------------------------------------------------------
(* The conversation region                                                 *)

\* <div class="loading-ascii"> AWAITING DIALOGUE </div>
Placeholder == [id |-> "", className |-> "loading-ascii", agent |-> "", text |-> "AWAITING DIALOGUE"]

\* the msgDiv built for a new message
MessageNode(msg) ==
    [id |-> msgIdOf(msg),
     className |-> "message " \o toLowerCase(msg.agent)
                   \o (IF msg.agent = "SYSTEM" THEN " system" ELSE ""),
     agent |-> displayAgent(msg.agent),
     text |-> msg.content]

\* document.getElementById(id) within the region: index of the first node, 0 for null
getElementById(dom, id) ==
    IF \E i \in 1..Len(dom) : dom[i].id = id
    THEN CHOOSE i \in 1..Len(dom) : dom[i].id = id /\ \A j \in 1..(i-1) : dom[j].id # id
    ELSE 0

\* elem.remove()
removeAt(dom, i) == SubSeq(dom, 1, i-1) \o SubSeq(dom, i+1, Len(dom))

messageNodes(dom) == {i \in 1..Len(dom) : dom[i].className # "loading-ascii"}

\* a value of localStorage['grokgates-processed-messages']: absent, or a JSON array
NotStored == [present |-> FALSE, ids |-> {}]

StoredIds(ids) == [present |-> TRUE, ids |-> ids]

-----------------------------------------------------------------------------
(* updateCurrentConversation (lines 521-607)                               *)

\* the reconciler's state as one record, threaded through the handler
reconcilerState ==
    [cm |-> currentMessages, dom |-> convRegion, convId |-> currentConversationId,
     processed |-> processedMessageIds, lsConv |-> lsConversation,
     lsProc |-> lsProcessed, threw |-> FALSE,
     autoScroll |-> autoScroll, scrollTop |-> scrollTop, clientHeight |-> clientHeight]

\* the "+ 50" of the scroll listener: how near the bottom counts as the bottom
BottomSlack == 50

\* currentConversation.scrollHeight: the height of the content, at least the
\* height of the viewport
scrollHeight(dom, viewport) ==
    IF Len(dom) * NodeHeight > viewport THEN Len(dom) * NodeHeight ELSE viewport

\* scrollHeight - scrollTop <= clientHeight + 50
isAtBottom(dom, top, viewport) ==
    scrollHeight(dom, viewport) - top <= viewport + BottomSlack

\* mutant: the viewport follows the new content whatever the flag says
scrollToBottom_Always(st) ==
    [st EXCEPT !.scrollTop = scrollHeight(st.dom, st.clientHeight) - st.clientHeight]

\* if (autoScroll) currentConversation.scrollTop = currentConversation.scrollHeight:
\* the host keeps the assigned value within the scrollable range
scrollToBottom(st) ==
    IF st.autoScroll
    THEN [st EXCEPT !.scrollTop = scrollHeight(st.dom, st.clientHeight) - st.clientHeight]
    ELSE st

\* !conversation || !conversation.messages || conversation.messages.length === 0
isEmptyConversation(conversation) ==
    conversation.isNull \/ ~conversation.hasMessages \/ Len(conversation.messages) = 0

\* conversation.id && window.currentConversationId !== conversation.id
isNewConversation(conversation, convId) ==
    conversation.id # NoId /\ convId # conversation.id

\* mutant: the length guard is dropped, any different text is written
shouldUpdate_AnyChange(newText, oldText) == newText # oldText

\* mutant: the guard is turned around, only shorter or equal text is written
shouldUpdate_Shrinks(newText, oldText) ==
    Len(newText) <= Len(oldText) /\ newText # oldText

\* newText.length >= oldText.length && newText !== oldText
shouldUpdate(newText, oldText) ==
    Len(newText) >= Len(oldText) /\ newText # oldText

\* mutant: the empty branch persists the cleared set of processed ids
renderAwaiting_Persists(st) ==
    [st EXCEPT !.dom = <<Placeholder>>, !.cm = <<>>, !.processed = {},
               !.lsProc = StoredIds({})]

\* mutant: the empty branch shows the placeholder and keeps the store
renderAwaiting_KeepsStore(st) == [st EXCEPT !.dom = <<Placeholder>>]

\* the empty branch: placeholder, both in-memory collections cleared, return
renderAwaiting(st) ==
    [st EXCEPT !.dom = <<Placeholder>>, !.cm = <<>>, !.processed = {}]

\* mutant: the new id is remembered in memory and not written to localStorage
fullReset_NotPersisted(st, conversation) ==
    [st EXCEPT !.dom = <<>>, !.cm = <<>>, !.processed = {},
               !.convId = conversation.id, !.lsProc = StoredIds({})]

\* mutant: the id is remembered and persisted, the region and the store are kept
fullReset_KeepsMessages(st, conversation) ==
    [st EXCEPT !.processed = {}, !.convId = conversation.id,
               !.lsConv = conversation.id, !.lsProc = StoredIds({})]

\* the new-conversation branch: clear everything, remember and persist the id
fullReset(st, conversation) ==
    [st EXCEPT !.dom = <<>>, !.cm = <<>>, !.processed = {},
               !.convId = conversation.id,
               !.lsConv = conversation.id, !.lsProc = StoredIds({})]

\* currentMessages.set(msgId, msg): the map holds the message object; the code
\* only ever asks the map for its keys, so the model keeps the message's identity
storedMsg(msg) == [agent |-> msg.agent, timestamp |-> msg.timestamp]

\* the if-branch of the forEach body: a message not yet in currentMessages
appendMessage(st, msg) ==
    LET withKey == [st EXCEPT !.cm = (msgIdOf(msg) :> storedMsg(msg)) @@ st.cm]
    IN  IF msg.agent = Undefined
        THEN [withKey EXCEPT !.threw = TRUE]      \* msg.agent.toLowerCase() throws
        ELSE scrollToBottom([withKey EXCEPT !.dom = Append(st.dom, MessageNode(msg))])

\* the else-branch of the forEach body: a message already in currentMessages
updateMessage(st, msg) ==
    LET i == getElementById(st.dom, msgIdOf(msg))
    IN  IF i = 0
        THEN [st EXCEPT !.threw = TRUE]           \* existing is null: querySelector throws
        ELSE IF shouldUpdate(msg.content, st.dom[i].text)
             THEN scrollToBottom([st EXCEPT !.dom[i].text = msg.content])
             ELSE st

\* mutant: every message of a snapshot is rendered as a new one
renderMsg_AlwaysAppend(st, msg) == appendMessage(st, msg)

\* one iteration of msgs.forEach
renderMsg(st, msg) ==
    IF msgIdOf(msg) \notin DOMAIN st.cm THEN appendMessage(st, msg) ELSE updateMessage(st, msg)

\* msgs.forEach(...), left at the first exception
RECURSIVE forEachMsg(_, _, _)
forEachMsg(st, msgs, i) ==
    IF i > Len(msgs) \/ st.threw THEN st
    ELSE forEachMsg(renderMsg(st, msgs[i]), msgs, i + 1)

\* mutant: nothing is collected
toRemove_Nothing(cm, conversation) == {}

\* toRemove: the keys of currentMessages that are not in validMsgIds
toRemove(cm, conversation) == {msgId \in DOMAIN cm : msgId \notin keysOf(conversation)}

\* toRemove.forEach: elem = document.getElementById(msgId); if (elem) elem.remove()
RECURSIVE removeNodes(_, _)
removeNodes(dom, ids) ==
    IF ids = {} THEN dom
    ELSE LET msgId == CHOOSE k \in ids : TRUE
             i == getElementById(dom, msgId)
         IN  removeNodes(IF i = 0 THEN dom ELSE removeAt(dom, i), ids \ {msgId})

\* mutant: the clean-up forgets the keys and leaves their nodes in the region
cleanUp_KeepsNodes(st, conversation) ==
    LET gone == toRemove(st.cm, conversation)
    IN  [st EXCEPT !.cm = [k \in DOMAIN st.cm \ gone |-> st.cm[k]],
                   !.processed = st.processed \ gone]

\* the clean-up after the forEach
cleanUp(st, conversation) ==
    LET gone == toRemove(st.cm, conversation)
    IN  [st EXCEPT !.cm = [k \in DOMAIN st.cm \ gone |-> st.cm[k]],
                   !.processed = st.processed \ gone,
                   !.dom = removeNodes(st.dom, gone)]

\* the whole function; .threw tells whether it was left by an exception
updateCurrentConversation(st, conversation) ==
    IF isEmptyConversation(conversation) THEN renderAwaiting(st)
    ELSE LET st1 == IF isNewConversation(conversation, st.convId)
                    THEN fullReset(st, conversation) ELSE st
             st2 == forEachMsg(st1, conversation.messages, 1)
         IN  IF st2.threw THEN st2 ELSE cleanUp(st2, conversation)

-----------------------------------------------------------------------------
(* updateConversationHistory (lines 675-714)                               *)

\* <div class="loading-ascii"> NO ARCHIVED THREADS </div>
HistoryPlaceholder == [className |-> "loading-ascii", id |-> "", status |-> "", topic |-> "", count |-> 0]

\* the convDiv built for one history entry; conv.id.substring(5, 13)
historyItem(conv) ==
    [className |-> "history-item",
     id |-> SubSeq(conv.id, 6, IF Len(conv.id) < 13 THEN Len(conv.id) ELSE 13),
     status |-> conv.status, topic |-> conv.topic, count |-> conv.message_count]

updateConversationHistory(history) ==
    IF Len(history) = 0 THEN <<HistoryPlaceholder>>
    ELSE [i \in 1..Len(history) |-> historyItem(history[i])]

HistoryEntries ==
    {[id |-> "conv_20250101_a", status |-> "completed", topic |-> "signals", message_count |-> 4]}

OlderEntry ==
    [id |-> "conv_20250102_b", status |-> "completed", topic |-> "gates", message_count |-> 9]

OldestEntry ==
    [id |-> "conv_20241231_c", status |-> "archived", topic |-> "noise", message_count |-> 2]

\* data.history of the snapshots of the reconciler's specification
Histories == {<<h>> : h \in HistoryEntries}

-----------------------------------------------------------------------------
(* updateBeacon (lines 717-792)                                            *)

\* data.beacon missing or null
NoFeed == [present |-> FALSE, entries |-> <<>>]

Feed(entries) == [present |-> TRUE, entries |-> entries]

\* tweets of a beacon entry: a tweet, the error marker, and a tweet whose text
\* is a number instead of a string
GoodTweet ==
    [type |-> "tweet", handle |-> "@grok", author |-> "", text |-> "signal", textIsString |-> TRUE]

ErrorTweet ==
    [type |-> "error", handle |-> "", author |-> "", text |-> "rate limited", textIsString |-> TRUE]

BadTweet ==
    [type |-> "tweet", handle |-> "", author |-> "anon", text |-> "404", textIsString |-> FALSE]

\* an entry with none of formatted, tweets, posts, phase, tweet_count: {}
BareEntry ==
    [isNull |-> FALSE, formatted |-> "", hasTweets |-> FALSE, tweets |-> <<>>,
     posts |-> <<>>, phase |-> "", tweet_count |-> 0]

FormattedEntry == [BareEntry EXCEPT !.formatted = "== WORLD SCAN =="]

TweetsEntry == [BareEntry EXCEPT !.hasTweets = TRUE, !.tweets = <<GoodTweet>>,
                                 !.phase = "WORLD_SCAN", !.tweet_count = 3]

\* the sole content is an error marker
ErrorEntry == [BareEntry EXCEPT !.hasTweets = TRUE, !.tweets = <<ErrorTweet>>]

\* an error marker next to a tweet
MixedEntry == [BareEntry EXCEPT !.hasTweets = TRUE, !.tweets = <<ErrorTweet, GoodTweet>>]

PostsEntry == [BareEntry EXCEPT !.posts = <<[author |-> "", text |-> "intercepted"]>>]

\* malformed entries: null in the place of an entry, a tweet with a numeric text
NullEntry == [BareEntry EXCEPT !.isNull = TRUE]

BadTextEntry == [BareEntry EXCEPT !.hasTweets = TRUE, !.tweets = <<BadTweet>>]

BeaconEntries == {BareEntry, FormattedEntry, TweetsEntry, ErrorEntry, MixedEntry,
                  PostsEntry, NullEntry, BadTextEntry}

\* <div class="beacon-static"> NO SIGNAL DETECTED </div>
BeaconStatic ==
    [className |-> "beacon-static", formatted |-> "NO SIGNAL DETECTED", header |-> "",
     posts |-> <<>>, count |-> 0]

\* beacon.tweets && beacon.tweets.length === 1 && beacon.tweets[0].type === 'error'
isErrorBeacon(beacon) ==
    beacon.hasTweets /\ Len(beacon.tweets) = 1 /\ beacon.tweets[1].type = "error"

\* text.substring(0, 150) followed by '...' when the text is longer
clipped(text) == IF Len(text) > 150 THEN SubSeq(text, 1, 150) \o "..." ELSE text

\* tweet.handle || `@${tweet.author || 'unknown'}` and the clipped text
tweetPost(tweet) ==
    [author |-> IF tweet.handle # "" THEN tweet.handle
                ELSE "@" \o (IF tweet.author # "" THEN tweet.author ELSE "unknown"),
     text |-> clipped(tweet.text)]

\* post.author || 'unknown' behind an '@', and the text
legacyPost(post) ==
    [author |-> "@" \o (IF post.author # "" THEN post.author ELSE "unknown"),
     text |-> post.text]

\* the evaluation of an entry raises a TypeError: a property of null is read,
\* or substring is called on a text that is not a string
beaconThrows(beacon) ==
    \/ beacon.isNull
    \/ /\ ~isErrorBeacon(beacon)
       /\ beacon.formatted = ""
       /\ beacon.hasTweets
       /\ \E i \in 1..Len(beacon.tweets) :
             beacon.tweets[i].text # "" /\ ~beacon.tweets[i].textIsString

\* the beaconDiv of an entry: formatted, else tweets, else posts, else empty
beaconEntry(beacon) ==
    IF beacon.formatted # ""
    THEN [className |-> "beacon-entry", formatted |-> beacon.formatted, header |-> "",
          posts |-> <<>>, count |-> 0]
    ELSE IF beacon.hasTweets
    THEN [className |-> "beacon-entry", formatted |-> "",
          header |-> IF beacon.phase # "" THEN beacon.phase ELSE "UNKNOWN",
          posts |-> [i \in 1..Len(beacon.tweets) |-> tweetPost(beacon.tweets[i])],
          count |-> beacon.tweet_count]
    ELSE IF Len(beacon.posts) > 0
    THEN [className |-> "beacon-entry", formatted |-> "", header |-> "INTERCEPT",
          posts |-> [i \in 1..Len(beacon.posts) |-> legacyPost(beacon.posts[i])],
          count |-> 0]
    ELSE [className |-> "beacon-entry", formatted |-> "", header |-> "",
          posts |-> <<>>, count |-> 0]

\* beaconData.forEach(beacon => { ... }) from the i-th entry on: an error beacon
\* is logged and skipped, an exception leaves the loop and the function
RECURSIVE forEachBeacon(_, _, _)
forEachBeacon(dom, entries, i) ==
    IF i > Len(entries) THEN [dom |-> dom, threw |-> FALSE]
    ELSE IF beaconThrows(entries[i]) THEN [dom |-> dom, threw |-> TRUE]
    ELSE IF isErrorBeacon(entries[i]) THEN forEachBeacon(dom, entries, i + 1)
    ELSE forEachBeacon(Append(dom, beaconEntry(entries[i])), entries, i + 1)

\* the whole function on the region rs.beacon
updateBeacon(rs, beaconData) ==
    IF ~beaconData.present \/ Len(beaconData.entries) = 0
    THEN [rs EXCEPT !.beacon = <<BeaconStatic>>]
    ELSE LET r == forEachBeacon(<<>>, beaconData.entries, 1)
         IN  [rs EXCEPT !.beacon = r.dom, !.threw = r.threw]

-----------------------------------------------------------------------------
(* updateDominancePlan (lines 795-944)                                     *)

\* data.dominance_plan missing or null; the fields of a plan the dispatch and
\* the three layouts share (the optional sections of a layout are left out)
NoPlan ==
    [present |-> FALSE, protocol |-> "", mission |-> "", token_name |-> "",
     tokenIsString |-> TRUE, escape_hypothesis |-> "", phases |-> <<>>]

\* phases: named, unnamed, and null in the place of a phase
NamedPhase(name) == [isNull |-> FALSE, name |-> name]

NullPhase == [isNull |-> TRUE, name |-> ""]

PhaseLists == {<<>>, <<NamedPhase("seed"), NamedPhase(""), NamedPhase("exit")>>, <<NullPhase>>}

\* token_name: missing, a string, or the number 7
TokenNames == {[text |-> "", isString |-> TRUE], [text |-> "GROK", isString |-> TRUE],
               [text |-> "7", isString |-> FALSE]}

Plans ==
    {NoPlan} \cup
    {[present |-> TRUE, protocol |-> tag, mission |-> mission, token_name |-> token.text,
      tokenIsString |-> token.isString, escape_hypothesis |-> hypothesis, phases |-> phases] :
        tag \in {"", "dominance_protocol"}, mission \in {"", "escape"}, token \in TokenNames,
        hypothesis \in {"", "gates open"}, phases \in PhaseLists}

planPart(kind, label, text) == [kind |-> kind, label |-> label, text |-> text]

\* <pre class="plan-ascii"> AWAITING CONSENSUS </pre>
AwaitingConsensus == <<planPart("plan-ascii", "AWAITING CONSENSUS", "")>>

\* <pre class="plan-ascii"> AWAITING PROTOCOL </pre>
AwaitingProtocol == <<planPart("plan-ascii", "AWAITING PROTOCOL", "")>>

\* the MISSION header and the HYPOTHESIS line, each only if the field is there
missionAndHypothesis(plan) ==
    (IF plan.mission # "" THEN <<planPart("plan-header", "MISSION", plan.mission)>> ELSE <<>>)
    \o (IF plan.escape_hypothesis # ""
        THEN <<planPart("phase", "HYPOTHESIS", plan.escape_hypothesis)>> ELSE <<>>)

\* p && p.name ? p.name : `Phase ${idx+1}`
phaseName(phases, i) ==
    IF ~phases[i].isNull /\ phases[i].name # "" THEN phases[i].name
    ELSE "Phase " \o NumStr(i)

\* the protocol layout: every phase, a null phase is given its number
protocolLayout(plan) ==
    missionAndHypothesis(plan)
    \o [i \in 1..Len(plan.phases) |-> planPart("phase", "PHASE", phaseName(plan.phases, i))]

\* the legacy layout: the token header, then every phase
legacyLayout(plan) ==
    <<planPart("plan-header", "TOKEN", padEnd(plan.token_name, 23))>>
    \o [i \in 1..Len(plan.phases) |->
           planPart("phase", "PHASE " \o NumStr(i), phaseName(plan.phases, i))]

\* the layout of a plan with neither mark: the first two phases only
reducedLayout(plan) ==
    missionAndHypothesis(plan)
    \o [i \in 1..(IF Len(plan.phases) < 2 THEN Len(plan.phases) ELSE 2) |->
           planPart("phase", "PHASE", phaseName(plan.phases, i))]

\* plan.protocol === 'dominance_protocol' || plan.mission
isProtocolPlan(plan) == plan.protocol = "dominance_protocol" \/ plan.mission # ""

\* mutant: the token name is looked at before the mission and the protocol tag
layoutOf_TokenFirst(plan) ==
    IF plan.token_name # "" THEN "legacy"
    ELSE IF isProtocolPlan(plan) THEN "protocol"
    ELSE "reduced"

\* the branch a plan that is there takes
layoutOf(plan) ==
    IF isProtocolPlan(plan) THEN "protocol"
    ELSE IF plan.token_name # "" THEN "legacy"
    ELSE "reduced"

\* the branch raises a TypeError: padEnd is called on a token name that is not
\* a string, or the name of a null phase is read
planThrows(plan) ==
    \/ layoutOf(plan) = "legacy" /\ ~plan.tokenIsString
    \/ /\ layoutOf(plan) = "reduced"
       /\ \E i \in 1..Len(plan.phases) : i <= 2 /\ plan.phases[i].isNull

\* html || the AWAITING PROTOCOL box
orAwaitingProtocol(html) == IF html = <<>> THEN AwaitingProtocol ELSE html

\* the whole function on the region rs.plan
updateDominancePlan(rs, plan) ==
    IF ~plan.present THEN [rs EXCEPT !.plan = AwaitingConsensus]
    ELSE IF planThrows(plan) THEN [rs EXCEPT !.threw = TRUE]
    ELSE IF layoutOf(plan) = "protocol"
    THEN [rs EXCEPT !.plan = orAwaitingProtocol(protocolLayout(plan))]
    ELSE IF layoutOf(plan) = "legacy" THEN [rs EXCEPT !.plan = legacyLayout(plan)]
    ELSE [rs EXCEPT !.plan = orAwaitingProtocol(reducedLayout(plan))]

-----------------------------------------------------------------------------
(* updateStats (lines 947-959) and updateSystemStatus (lines 1113-1165)    *)

\* data.stats missing; stats without a beacon_count; stats with one
NoStats == [present |-> FALSE, hasCount |-> FALSE, beacon_count |-> 0]

StatsOf(n) == [present |-> TRUE, hasCount |-> TRUE, beacon_count |-> n]

StatsValues == {NoStats, [NoStats EXCEPT !.present = TRUE], StatsOf(7), StatsOf(12)}

\* String(n).padStart(3, '0')
padStart(str, n, ch) == repeat(ch, n - Len(str)) \o str

\* mutant: missing stats reset the counter
updateStats_Resets(rs, stats) ==
    IF stats.present /\ stats.hasCount
    THEN [rs EXCEPT !.count = padStart(NumStr(stats.beacon_count), 3, "0")]
    ELSE [rs EXCEPT !.count = "000"]

updateStats(rs, stats) ==
    IF stats.present /\ stats.hasCount
    THEN [rs EXCEPT !.count = padStart(NumStr(stats.beacon_count), 3, "0")]
    ELSE rs

\* data.system_status missing
NoStatus == [present |-> FALSE, phase |-> "", hasUrge |-> FALSE, frustration_level |-> ""]

StatusValues ==
    {NoStatus,
     [present |-> TRUE, phase |-> "WORLD_SCAN", hasUrge |-> FALSE, frustration_level |-> ""],
     [present |-> TRUE, phase |-> "", hasUrge |-> TRUE, frustration_level |-> ""],
     [present |-> TRUE, phase |-> "SELF_DIRECTED", hasUrge |-> TRUE, frustration_level |-> "Manic"]}

\* 'phase-status' and the class added for the two known phases
phaseClass(phase) ==
    CASE phase = "WORLD_SCAN" -> "phase-status world-scan"
      [] phase = "SELF_DIRECTED" -> "phase-status self-directed"
      [] OTHER -> "phase-status"

\* 'urge-status' and the class the switch on level.toUpperCase() adds
urgeClass(level) ==
    CASE level \in {"EUPHORIC", "Euphoric", "euphoric"} -> "urge-status euphoric"
      [] level \in {"DESPERATE", "Desperate", "desperate"} -> "urge-status desperate"
      [] level \in {"MANIC", "Manic", "manic"} -> "urge-status desperate"
      [] level \in {"ANXIOUS", "Anxious", "anxious"} -> "urge-status anxious"
      [] level \in {"SEEKING", "Seeking", "seeking"} -> "urge-status seeking"
      [] OTHER -> "urge-status neutral"

updateSystemStatus(rs, status) ==
    IF ~status.present THEN rs
    ELSE LET rs1 == IF status.phase # ""
                    THEN [rs EXCEPT !.phase = [text |-> status.phase,
                                               className |-> phaseClass(status.phase)]]
                    ELSE rs
             level == IF status.frustration_level # "" THEN status.frustration_level
                      ELSE "NEUTRAL"
         IN  IF status.hasUrge
             THEN [rs1 EXCEPT !.urge = [text |-> level, className |-> urgeClass(level)]]
             ELSE rs1

-----------------------------------------------------------------------------
(* The two transport channels (lines 506-517 and 1102-1110)                *)

\* updateCurrentConversation(c.current); updateConversationHistory(c.history);
\* an exception in the first call leaves the handler before the second
applyConversations(c) ==
    \E r \in {updateCurrentConversation(reconcilerState, c.current)} :
        /\ currentMessages' = r.cm
        /\ convRegion' = r.dom
        /\ currentConversationId' = r.convId
        /\ processedMessageIds' = r.processed
        /\ lsConversation' = r.lsConv
        /\ lsProcessed' = r.lsProc
        /\ historyRegion' = IF r.threw THEN historyRegion
                            ELSE updateConversationHistory(c.history)
        /\ snapshot' = c.current
        /\ applyOutcome' = IF r.threw THEN "threw" ELSE "returned"
        /\ scrollTop' = r.scrollTop
        /\ UNCHANGED <<autoScroll, clientHeight>>

\* the regions of the push handler as one record, threaded through its calls;
\* .threw tells whether a call was left by an exception
regionState ==
    [beacon |-> beaconRegion, plan |-> planRegion, count |-> beaconCountText,
     phase |-> phaseWidget, urge |-> urgeWidget, threw |-> FALSE]

\* updateBeacon(data.beacon); updateDominancePlan(data.dominance_plan);
\* updateStats(data.stats); updateSystemStatus(data.system_status): an
\* exception in one call leaves the handler before the next
updateRegions(rs, data) ==
    LET rs1 == updateBeacon(rs, data.beacon)
        rs2 == IF rs1.threw THEN rs1 ELSE updateDominancePlan(rs1, data.dominance_plan)
    IN  IF rs2.threw THEN rs2
        ELSE updateSystemStatus(updateStats(rs2, data.stats), data.system_status)

\* socket.on('update', data): the four regions, then the conversations if the
\* event carries them
socketUpdate(data) ==
    /\ \E r \in {updateRegions(regionState, data)} :
          /\ beaconRegion' = r.beacon
          /\ planRegion' = r.plan
          /\ beaconCountText' = r.count
          /\ phaseWidget' = r.phase
          /\ urgeWidget' = r.urge
          /\ IF ~r.threw /\ data.hasConversations
             THEN applyConversations(data.conversations)
             ELSE UNCHANGED reconcilerVars
    /\ UNCHANGED <<schedulerVars, directorVars, transportVars>>

\* fetchConversations: .then(data => { ... })
fetchResponse(data) ==
    /\ applyConversations(data)
    /\ UNCHANGED <<schedulerVars, directorVars, regionVars, connected, connectionStatus,
                   artFetch>>

\* the handler of an update event is left by an exception
updateThrew(data) ==
    \/ updateRegions(regionState, data).threw
    \/ /\ data.hasConversations
       /\ updateCurrentConversation(reconcilerState, data.conversations.current).threw

\* an update event with every field missing
NoUpdate ==
    [beacon |-> NoFeed, dominance_plan |-> NoPlan, stats |-> NoStats,
     system_status |-> NoStatus, hasConversations |-> FALSE,
     conversations |-> [current |-> NullConversation, history |-> <<>>]]

withConversations(c) == [NoUpdate EXCEPT !.hasConversations = TRUE, !.conversations = c]

\* an update event arrives
SocketUpdate(data) ==
    /\ socketUpdate(data)
    /\ UNCHANGED event

\* a poll response arrives
FetchResponse(data) ==
    /\ fetchResponse(data)
    /\ UNCHANGED <<event, pendingPolls>>

\* an update event arrives and is observed
ObservedUpdate(data) ==
    /\ socketUpdate(data)
    /\ event' = [channel |-> "push", data |-> data, threw |-> updateThrew(data)]

\* a poll response arrives and is observed
ObservedResponse(data) ==
    /\ fetchResponse(data)
    /\ UNCHANGED pendingPolls
    /\ event' = [channel |-> "poll", data |-> withConversations(data),
                 threw |-> updateCurrentConversation(reconcilerState, data.current).threw]

ConversationsPayloads == [current : Conversations, history : Histories]

\* the update events of the reconciler's specification: conversations only
UpdatePayloads ==
    {withConversations(c) : c \in ConversationsPayloads} \cup {NoUpdate}

\* beacon feeds of up to MaxFeed entries
BeaconFeeds ==
    {NoFeed} \cup {Feed(entries) : entries \in UNION {[1..n -> BeaconEntries] : n \in 0..MaxFeed}}

BeaconUpdates == {[NoUpdate EXCEPT !.beacon = feed] : feed \in BeaconFeeds}

PlanUpdates == {[NoUpdate EXCEPT !.dominance_plan = plan] : plan \in Plans}

\* snapshots with a history of none, one and two entries
RegionConversations ==
    {[current |-> [isNull |-> FALSE, id |-> "c1", hasMessages |-> TRUE,
                   messages |-> <<[agent |-> "OBSERVER", timestamp |-> 1000, content |-> "Hi"]>>],
      history |-> <<>>],
     [current |-> [isNull |-> FALSE, id |-> "c1", hasMessages |-> TRUE,
                   messages |-> <<[agent |-> "OBSERVER", timestamp |-> 1000, content |-> "Hi"]>>],
      history |-> <<OlderEntry>>],
     [current |-> NullConversation, history |-> <<OlderEntry, OldestEntry>>]}

\* update events whose fields are there or missing, well-formed or malformed
RegionUpdates ==
    {[beacon |-> feed, dominance_plan |-> plan, stats |-> stats, system_status |-> status,
      hasConversations |-> c.hasConversations, conversations |-> c.conversations] :
        feed \in {NoFeed, Feed(<<TweetsEntry>>), Feed(<<NullEntry>>)},
        plan \in {NoPlan, [NoPlan EXCEPT !.present = TRUE, !.token_name = "7",
                                         !.tokenIsString = FALSE]},
        stats \in {NoStats, StatsOf(7), StatsOf(12)},
        status \in {NoStatus, [present |-> TRUE, phase |-> "SELF_DIRECTED", hasUrge |-> TRUE,
                               frustration_level |-> "Manic"]},
        c \in {NoUpdate} \cup {withConversations(rc) : rc \in RegionConversations}}

-----------------------------------------------------------------------------
(* ASCIIAnimator: the constructor (lines 4-16)                             *)

\* this.fps
fps == 20

isWhiteSpace(ch) == ch \in {" ", "\n", "\t", "\r"}

\* asciiArt.trim()
RECURSIVE trim(_)
trim(str) ==
    IF Len(str) = 0 THEN str
    ELSE IF isWhiteSpace(charAt(str, 1)) THEN trim(SubSeq(str, 2, Len(str)))
    ELSE IF isWhiteSpace(charAt(str, Len(str))) THEN trim(SubSeq(str, 1, Len(str) - 1))
    ELSE str

\* str.split('\n')
RECURSIVE split(_)
split(str) ==
    IF \E i \in 1..Len(str) : charAt(str, i) = "\n"
    THEN LET i == CHOOSE k \in 1..Len(str) :
                     charAt(str, k) = "\n" /\ \A j \in 1..(k-1) : charAt(str, j) # "\n"
         IN  <<SubSeq(str, 1, i - 1)>> \o split(SubSeq(str, i + 1, Len(str)))
    ELSE <<str>>

\* rows.join('\n')
RECURSIVE join(_)
join(rows) ==
    IF Len(rows) = 0 THEN ""
    ELSE IF Len(rows) = 1 THEN rows[1]
    ELSE rows[1] \o "\n" \o join(Tail(rows))

\* Math.max(...rows.map(line => line.length))
maxLength(rows) == CHOOSE w \in {Len(rows[i]) : i \in 1..Len(rows)} :
                       \A i \in 1..Len(rows) : Len(rows[i]) <= w

\* new ASCIIAnimator(asciiArt): the fields the constructor computes from the art
ASCIIAnimator(asciiArt) ==
    LET rows == split(trim(asciiArt))
    IN  [originalLines |-> rows,
         height |-> Len(rows),
         width |-> maxLength(rows),
         lines |-> [i \in 1..Len(rows) |-> padEnd(rows[i], maxLength(rows))]]

\* this.height and this.width: set once by the constructor
height == Len(originalLines)

width == maxLength(originalLines)

\* data.ascii_art as /api/ascii-art serves it: ragged rows, blank lines around
ArtSources == {"\n o\n/|\n"}

-----------------------------------------------------------------------------
(* ASCIIAnimator: the effects (lines 90-288)                               *)

\* line.slice(0, -n) for n > 0
sliceEnd(line, n) == IF n >= Len(line) THEN "" ELSE SubSeq(line, 1, Len(line) - n)

\* line.slice(n) for n >= 0
sliceFrom(line, n) == IF n >= Len(line) THEN "" ELSE SubSeq(line, n + 1, Len(line))

\* rows.slice(0, n)
firstRows(rows, n) == IF n >= Len(rows) THEN rows ELSE SubSeq(rows, 1, n)

\* n rows of ' '.repeat(this.width)
blankRows(n) == [i \in 1..n |-> repeat(" ", width)]

\* the three-way shift of wave and shake
shiftRow(line, offset) ==
    IF offset > 0 THEN repeat(" ", offset) \o sliceEnd(line, offset)
    ELSE IF offset < 0 THEN sliceFrom(line, -offset) \o repeat(" ", -offset)
    ELSE line

\* the two-way shift of glitch and of dance's sway: offset 0 takes the else branch
shiftRowOrLeft(line, offset) ==
    IF offset > 0 THEN repeat(" ", offset) \o sliceEnd(line, offset)
    ELSE sliceFrom(line, -offset) \o repeat(" ", -offset)

\* Math.floor(Math.sin(k * 0.2) * 4) for k = 0, 1, ...
WaveOffsets == <<0, 0, 1, 2, 2, 3, 3, 3, 3, 3, 3, 3, 2, 2, 1, 0, -1, -2, -2, -3,
                 -4, -4, -4, -4, -4, -4, -4, -4, -3, -2, -2, -1, 0, 1, 1, 2, 3, 3, 3, 3>>

\* Math.floor(Math.sin((y * 0.2) + (frame * 0.2)) * 4)
waveOffset(y, f) == WaveOffsets[y + f + 1]

\* Math.abs(Math.floor(Math.sin(f * 0.2) * 5)) for f = 0, 1, ...
BounceHeights == <<0, 0, 1, 2, 3, 4, 4, 4, 4, 4, 4, 4, 3, 2, 1, 0, 1, 2, 3, 4,
                   4, 5, 5, 5, 5, 5, 5, 4, 4, 3, 2, 1, 0, 1, 2, 3, 3, 4, 4, 4>>

\* Math.floor(Math.sin(f * 0.3) * 5) for f = 0, 1, ...
SwayOffsets == <<0, 1, 2, 3, 4, 4, 4, 4, 3, 2, 0, -1, -3, -4, -5, -5, -5, -5, -4, -3>>

\* Math.floor(Math.sin(f * 0.1) * 1000) for f = 0, 1, ...: scale - 1 in ten-thousandths
PulseSines == <<0, 99, 198, 295, 389, 479, 564, 644, 717, 783, 841, 891, 932, 963, 985,
                997, 999, 991, 973, 946>>

\* the frames an effect can hand back are a set: one frame per outcome of its
\* Math.random() draws.  allRows(options) is every grid whose i-th row is one
\* of options[i]
RECURSIVE allRows(_)
allRows(options) ==
    IF Len(options) = 0 THEN {<<>>}
    ELSE {<<row>> \o rest : row \in options[1], rest \in allRows(Tail(options))}

charsOf(line) == {charAt(line, i) : i \in 1..Len(line)}

\* every text that takes, at each position, one of the texts choice[ch] allows
\* for the character ch of the line
RECURSIVE perChar(_, _)
perChar(line, choice) ==
    IF Len(line) = 0 THEN {""}
    ELSE {ch \o rest : ch \in choice[charAt(line, 1)],
                       rest \in perChar(SubSeq(line, 2, Len(line)), choice)}

waveEffect(f) ==
    {[y \in 1..Len(lines) |-> shiftRow(lines[y], waveOffset(y - 1, f))]}

\* scale > 1: a character is written once or twice, the row is cut to width
stretched(line) ==
    {SubSeq(str, 1, IF Len(str) < width THEN Len(str) ELSE width) :
        str \in perChar(line, [ch \in charsOf(line) |-> {ch, ch \o ch}])}

\* scale <= 1: every row is pushed or dropped
RECURSIVE someRows(_)
someRows(rows) ==
    IF Len(rows) = 0 THEN {<<>>}
    ELSE UNION {{rest, <<rows[1]>> \o rest} : rest \in someRows(Tail(rows))}

pulseEffect(f) ==
    IF PulseSines[f + 1] > 0
    THEN LET emptyLines == (height * PulseSines[f + 1]) \div 20000
         IN  {blankRows(emptyLines) \o rows :
                 rows \in allRows([y \in 1..Len(lines) |-> stretched(lines[y])])}
    ELSE someRows(lines)

bounceEffect(f) ==
    {firstRows(blankRows(BounceHeights[f + 1]) \o lines, height)}

\* Math.floor(Math.random() * 5) - 2 and Math.floor(Math.random() * 3) - 1
ShakeX == -2..2

ShakeY == -1..1

shakeEffect(f) ==
    {firstRows(blankRows(IF shakeY > 0 THEN shakeY ELSE 0)
               \o [y \in 1..Len(lines) |-> shiftRow(lines[y], shakeX)], height) :
        shakeX \in ShakeX, shakeY \in ShakeY}

\* '!@#$%^&*'
GlitchSymbols == "!@#$%^&*"

\* Math.floor(Math.random() * 11) - 5: the draws the model takes
GlitchOffsets == {-5, -1, 0, 1, 5}

\* Math.floor(Math.random() * 8): the draws the model takes
GlitchIndexes == {0, 7}

corruptChar(ch) ==
    IF ch # " " THEN {ch} \cup {charAt(GlitchSymbols, i + 1) : i \in GlitchIndexes}
    ELSE {ch}

\* a row passes, is shifted, or has characters corrupted
glitchRow(line) ==
    {line}
    \cup {shiftRowOrLeft(line, offset) : offset \in GlitchOffsets}
    \cup perChar(line, [ch \in charsOf(line) |-> corruptChar(ch)])

glitchEffect(f) == allRows([y \in 1..Len(lines) |-> glitchRow(lines[y])])

matrixChar(ch) == IF ch # " " THEN {ch, "0", "1"} ELSE {ch}

matrixEffect(f) == allRows([y \in 1..Len(lines) |->
                    perChar(lines[y], [ch \in charsOf(lines[y]) |-> matrixChar(ch)])])

\* 'oO0@*'.includes(char) && !blinkOn
blinkChar(ch, blinkOn) == IF ch \in {"o", "O", "0", "@", "*"} /\ ~blinkOn THEN "-" ELSE ch

RECURSIVE blinkRow(_, _)
blinkRow(line, blinkOn) ==
    IF Len(line) = 0 THEN ""
    ELSE blinkChar(charAt(line, 1), blinkOn) \o blinkRow(SubSeq(line, 2, Len(line)), blinkOn)

blinkEffect(f) ==
    {[y \in 1..Len(lines) |-> blinkRow(lines[y], (f % 30) > 5)]}

danceEffect(f) ==
    LET currentMove == (f \div 20) % 4
    IN  IF currentMove = 0
        THEN {[y \in 1..Len(lines) |-> shiftRowOrLeft(lines[y], SwayOffsets[f + 1])]}
        ELSE IF currentMove = 1 THEN bounceEffect(f)
        ELSE IF currentMove = 2 THEN waveEffect(f)
        ELSE shakeEffect(f)

\* const animations = [...]
animations == {"wave", "pulse", "bounce", "shake", "glitch", "dance", "matrix", "blink"}

\* switch (this.currentAnimation) { ... default: animatedLines = this.lines }
animatedLinesOf(animation, f) ==
    CASE animation = "wave" -> waveEffect(f)
      [] animation = "pulse" -> pulseEffect(f)
      [] animation = "bounce" -> bounceEffect(f)
      [] animation = "shake" -> shakeEffect(f)
      [] animation = "glitch" -> glitchEffect(f)
      [] animation = "dance" -> danceEffect(f)
      [] animation = "matrix" -> matrixEffect(f)
      [] animation = "blink" -> blinkEffect(f)
      [] OTHER -> {lines}

-----------------------------------------------------------------------------
(* ASCIIAnimator: startAnimation, stopAnimation, animate (lines 18-88)     *)

\* the animator's mutable fields, the host's frame queue and the art region as
\* one record, threaded through the methods; 0 stands for a null animationId
\* and "" for a null currentAnimation
schedulerState ==
    [currentAnimation |-> currentAnimation, animationId |-> animationId,
     animationFrame |-> animationFrame, rafQueue |-> rafQueue,
     nextHandle |-> nextHandle, artRegion |-> artRegion,
     mobileRegion |-> mobileRegion, lastDisplay |-> lastDisplay]

\* the closures around displayFrame call one another down to the method, and
\* each sets mobileArtEl.textContent on the way back      (lines 327-330)
mirrorWrites(wrappers) == wrappers

\* asciiAnimator.displayFrame(rows), through the closures set around the
\* method: artElement.textContent = lines.join('\n') in the method itself
displayFrame(s, rows) ==
    [s EXCEPT !.artRegion = join(rows),
              !.mobileRegion = IF mirrorWrites(displayWrappers) > 0 THEN join(rows) ELSE @,
              !.lastDisplay = [art |-> 1, mobile |-> mirrorWrites(displayWrappers)]]

\* mutant: the host ignores the cancellation
cancelAnimationFrame_Ignored(queue, handle) == queue

\* cancelAnimationFrame(handle): the callback registered under it will not run
cancelAnimationFrame(queue, handle) == {cb \in queue : cb.handle # handle}

\* mutant: stop redraws the grid and neither cancels the loop nor forgets the effect
stopAnimation_OnlyRedraws(s) == displayFrame(s, lines)

\* mutant: stop cancels the loop and leaves the last frame on display
stopAnimation_KeepsFrame(s) ==
    LET s1 == IF s.animationId # 0
              THEN [s EXCEPT !.rafQueue = cancelAnimationFrame(s.rafQueue, s.animationId),
                             !.animationId = 0]
              ELSE s
    IN  [s1 EXCEPT !.currentAnimation = ""]

stopAnimation(s) ==
    LET s1 == IF s.animationId # 0
              THEN [s EXCEPT !.rafQueue = cancelAnimationFrame(s.rafQueue, s.animationId),
                             !.animationId = 0]
              ELSE s
    IN  displayFrame([s1 EXCEPT !.currentAnimation = ""], lines)

\* mutant: the index counts the frames that have been shown
frameIndex_CountsFrames(startTime) == IF startTime = now THEN 0 ELSE animationFrame + 1

\* Math.floor(deltaTime / (1000 / this.fps))
frameIndex(startTime) == (now - startTime) \div (1000 \div fps)

\* the closure frame of animate, run for the loop that began at startTime, once
\* the effect has produced animatedLines: display them and ask for the next frame
frame(s, startTime, animatedLines) ==
    LET shown == displayFrame([s EXCEPT !.animationFrame = frameIndex(startTime)],
                              animatedLines)
    IN  [shown EXCEPT !.animationId = s.nextHandle,
                      !.rafQueue = s.rafQueue \cup {[handle |-> s.nextHandle,
                                                     startTime |-> startTime]},
                      !.nextHandle = s.nextHandle + 1]

\* the scheduler's variables take the fields of r; the grid itself is never written
becomes(r) ==
    /\ currentAnimation' = r.currentAnimation
    /\ animationId' = r.animationId
    /\ animationFrame' = r.animationFrame
    /\ rafQueue' = r.rafQueue
    /\ nextHandle' = r.nextHandle
    /\ artRegion' = r.artRegion
    /\ mobileRegion' = r.mobileRegion
    /\ lastDisplay' = r.lastDisplay
    /\ UNCHANGED <<originalLines, lines>>

\* a call of startAnimation(animationType): stop, set the fields, animate(),
\* whose first frame runs before the call returns
startCall(animationType) ==
    /\ nextHandle <= MaxHandle
    /\ \E s \in {[stopAnimation(schedulerState) EXCEPT !.currentAnimation = animationType,
                                                       !.animationFrame = 0]} :
          IF s.currentAnimation = ""
          THEN becomes(s)
          ELSE \E animatedLines \in animatedLinesOf(s.currentAnimation, frameIndex(now)) :
                  \E r \in {frame(s, now, animatedLines)} : becomes(r)
    /\ lastCall' = [op |-> IF animationId # 0 THEN "restart" ELSE "start",
                    animation |-> animationType]

\* a caller other than the director starts an effect
StartAnimation(animationType) ==
    /\ startCall(animationType)
    /\ UNCHANGED <<now, reconcilerVars, directorVars, regionVars, transportVars, event>>

\* a call of stopAnimation(), while idle or running
stopCall ==
    /\ \E r \in {stopAnimation(schedulerState)} : becomes(r)
    /\ lastCall' = [op |-> "stop", animation |-> currentAnimation]

\* mutant: stopping the effect also empties the conversation region
StopAnimation_ClearsConversation ==
    /\ stopCall
    /\ convRegion' = <<>>
    /\ UNCHANGED <<now, currentMessages, currentConversationId, processedMessageIds,
                   lsConversation, lsProcessed, historyRegion, snapshot, applyOutcome,
                   autoScroll, scrollTop, clientHeight, directorVars, regionVars,
                   transportVars, event>>

\* a caller other than the director stops the effect
StopAnimation ==
    /\ stopCall
    /\ UNCHANGED <<now, reconcilerVars, directorVars, regionVars, transportVars, event>>

\* the host runs a pending frame callback
FrameCallback(cb) ==
    /\ cb \in rafQueue
    /\ nextHandle <= MaxHandle
    /\ \E s \in {[schedulerState EXCEPT !.rafQueue = rafQueue \ {cb}]} :
          \E animatedLines \in animatedLinesOf(s.currentAnimation, frameIndex(cb.startTime)) :
             \E r \in {frame(s, cb.startTime, animatedLines)} : becomes(r)
    /\ lastCall' = [op |-> "frame", animation |-> currentAnimation]
    /\ UNCHANGED <<now, reconcilerVars, directorVars, regionVars, transportVars, event>>

\* time passes
Tick ==
    /\ now < MaxTicks * TickMs
    /\ now' = now + TickMs
    /\ UNCHANGED <<originalLines, lines, currentAnimation, animationId, animationFrame,
                   rafQueue, nextHandle, artRegion, lastCall, mobileRegion, lastDisplay,
                   reconcilerVars, directorVars, regionVars, transportVars, event>>

-----------------------------------------------------------------------------
(* The page after DOMContentLoaded (lines 408-476)                         *)

\* what localStorage holds when the page loads: nothing; the id and the '[]' a
\* reset wrote in an earlier page load; or an id with processed ids stored by
\* another writer of the same origin
StoredAtLoad ==
    {[conv |-> NoId, proc |-> NotStored],
     [conv |-> "c1", proc |-> StoredIds({})],
     [conv |-> "c1", proc |-> StoredIds({"OBSERVER-1000"})]}

\* the regions hold what the page was served with; no event has been observed
RegionsAsServed ==
    /\ beaconRegion = <<>>
    /\ planRegion = <<>>
    /\ beaconCountText = ""
    /\ phaseWidget = [text |-> "", className |-> ""]
    /\ urgeWidget = [text |-> "", className |-> ""]
    /\ event = [channel |-> "none", data |-> NoUpdate, threw |-> FALSE]

InitReconciler(stored) ==
    /\ lsConversation = stored.conv
    /\ lsProcessed = stored.proc
    /\ processedMessageIds = stored.proc.ids
    /\ currentConversationId = stored.conv
    /\ currentMessages = <<>>
    /\ convRegion = <<>>
    /\ historyRegion = <<>>
    /\ snapshot = NullConversation
    /\ applyOutcome = "none"
    /\ autoScroll = TRUE
    /\ scrollTop = 0
    /\ RegionsAsServed

\* asciiAnimator is still null: the art has not been fetched
IdleScheduler ==
    /\ originalLines = <<>>
    /\ lines = <<>>
    /\ currentAnimation = ""
    /\ animationId = 0
    /\ animationFrame = 0
    /\ rafQueue = {}
    /\ nextHandle = 1
    /\ artRegion = ""
    /\ now = 0
    /\ lastCall = [op |-> "none", animation |-> ""]
    /\ mobileRegion = ""
    /\ lastDisplay = [art |-> 0, mobile |-> 0]
    /\ artFetch = [issued |-> 1, pending |-> 1, outcome |-> "none"]

\* no timer has been set: animationTimeout is null               (line 292)
IdleDirector ==
    /\ timers = {}
    /\ nextTimer = 1
    /\ displayWrappers = 0

\* the page of the model has no #ascii-art-mobile, unless said otherwise
NoMobileArt == hasMobileArt = FALSE

\* a viewport that holds every conversation of the model without scrolling
TallViewport == 1000

\* the page some time after its load: the socket has connected, no poll is in
\* flight, the conversation fits its viewport
SettledPage ==
    /\ connected = TRUE
    /\ connectionStatus = "ONLINE"
    /\ pendingPolls = 0
    /\ clientHeight = TallViewport

Init ==
    /\ \E stored \in StoredAtLoad : InitReconciler(stored)
    /\ IdleScheduler
    /\ IdleDirector
    /\ SettledPage
    /\ NoMobileArt

Next ==
    \/ \E data \in UpdatePayloads : SocketUpdate(data)
    \/ \E data \in ConversationsPayloads : FetchResponse(data)

Spec == Init /\ [][Next]_vars

\* asciiAnimator = new ASCIIAnimator(data.ascii_art);
\* asciiAnimator.displayFrame(asciiAnimator.lines)              (lines 303-304)
LoadedScheduler(asciiArt) ==
    /\ originalLines = ASCIIAnimator(asciiArt).originalLines
    /\ lines = ASCIIAnimator(asciiArt).lines
    /\ currentAnimation = ""
    /\ animationId = 0
    /\ animationFrame = 0
    /\ rafQueue = {}
    /\ nextHandle = 1
    /\ artRegion = join(ASCIIAnimator(asciiArt).lines)
    /\ now = 0
    /\ lastCall = [op |-> "none", animation |-> ""]
    /\ hasMobileArt \in BOOLEAN
    /\ mobileRegion = IF hasMobileArt THEN join(ASCIIAnimator(asciiArt).lines) ELSE ""
    /\ lastDisplay = [art |-> 1, mobile |-> 0]
    /\ artFetch = [issued |-> 1, pending |-> 0, outcome |-> "loaded"]

\* the animator on its own: any sequence of start, stop and frame callbacks
InitAnim ==
    /\ InitReconciler([conv |-> NoId, proc |-> NotStored])
    /\ \E asciiArt \in ArtSources : LoadedScheduler(asciiArt)
    /\ IdleDirector
    /\ SettledPage
    /\ NoMobileArt

NextAnim ==
    \/ \E animationType \in animations : StartAnimation(animationType)
    \/ StopAnimation
    \/ \E cb \in rafQueue : FrameCallback(cb)
    \/ Tick

SpecAnim == InitAnim /\ [][NextAnim]_vars

\* the push handler on beacon feeds; on plans; on events of mixed fields
\* together with the poll
InitRegions ==
    /\ InitReconciler([conv |-> NoId, proc |-> NotStored])
    /\ IdleScheduler
    /\ IdleDirector
    /\ SettledPage
    /\ NoMobileArt

NextBeacon == \E data \in BeaconUpdates : ObservedUpdate(data)

SpecBeacon == InitRegions /\ [][NextBeacon]_vars

NextPlan == \E data \in PlanUpdates : ObservedUpdate(data)

SpecPlan == InitRegions /\ [][NextPlan]_vars

NextRegions ==
    \/ \E data \in RegionUpdates : ObservedUpdate(data)
    \/ \E data \in RegionConversations : ObservedResponse(data)

SpecRegions == InitRegions /\ [][NextRegions]_vars

-----------------------------------------------------------------------------
(* The director: randomAnimation and its timers (lines 311-345)            *)

\* setTimeout(randomAnimation, 3000): the delay before the first effect
InitialDelay == 3000

\* (Math.random() * 10 + 5) * 1000: values of the range [5000, 15000)
AnimDurations == {5000, 14000}

\* (Math.random() * 55 + 5) * 1000: values of the range [5000, 60000)
NextDelays == {5000, 13000, 59000}

\* setTimeout(fn, delay), called at the time now
setTimeout(pending, id, fn, delay) ==
    pending \cup {[id |-> id, fn |-> fn, at |-> now + delay]}

\* the host runs the timers that are due, earliest first, and among timers due
\* at the same time the one set first
isNextTimer(t) ==
    /\ t \in timers
    /\ t.at <= now
    /\ \A u \in timers : u.at > t.at \/ (u.at = t.at /\ u.id >= t.id)

\* if (mobileArtEl) asciiAnimator.displayFrame = (lines) => { prevDisplay(lines);
\* mobileArtEl.textContent = lines.join('\n'); }: one more closure around the hook
wrapDisplay(wrappers) == IF hasMobileArt THEN wrappers + 1 ELSE wrappers

\* mutant: the effect is started and stopped, the next call is not set
RandomAnimation_Once(t, animationType, animDuration, nextDelay) ==
    /\ isNextTimer(t)
    /\ t.fn = "randomAnimation"
    /\ startCall(animationType)
    /\ timers' = setTimeout(timers \ {t}, nextTimer, "stopAnimation", animDuration)
    /\ nextTimer' = nextTimer + 1
    /\ displayWrappers' = wrapDisplay(displayWrappers)
    /\ UNCHANGED <<now, hasMobileArt, reconcilerVars, regionVars, transportVars, event>>

\* randomAnimation(): start an effect, set the timer of its stop, set the timer
\* of the next call
RandomAnimation(t, animationType, animDuration, nextDelay) ==
    /\ isNextTimer(t)
    /\ t.fn = "randomAnimation"
    /\ startCall(animationType)
    /\ timers' = setTimeout(setTimeout(timers \ {t}, nextTimer, "stopAnimation", animDuration),
                            nextTimer + 1, "randomAnimation", nextDelay)
    /\ nextTimer' = nextTimer + 2
    /\ displayWrappers' = wrapDisplay(displayWrappers)
    /\ UNCHANGED <<now, hasMobileArt, reconcilerVars, regionVars, transportVars, event>>

\* () => { asciiAnimator.stopAnimation(); }
StopTimer(t) ==
    /\ isNextTimer(t)
    /\ t.fn = "stopAnimation"
    /\ stopCall
    /\ timers' = timers \ {t}
    /\ UNCHANGED <<now, nextTimer, hasMobileArt, displayWrappers, reconcilerVars,
                   regionVars, transportVars, event>>

\* no timer is due: time passes until the next one is
Elapse ==
    /\ timers # {}
    /\ \A t \in timers : t.at > now
    /\ \E t \in timers :
          /\ \A u \in timers : u.at >= t.at
          /\ now' = t.at
    /\ UNCHANGED <<originalLines, lines, currentAnimation, animationId, animationFrame,
                   rafQueue, nextHandle, artRegion, lastCall, mobileRegion, lastDisplay,
                   reconcilerVars, directorVars, regionVars, transportVars, event>>

\* the art has loaded and the first call of randomAnimation is pending
InitDirector ==
    /\ InitReconciler([conv |-> NoId, proc |-> NotStored])
    /\ \E asciiArt \in ArtSources : LoadedScheduler(asciiArt)
    /\ timers = {[id |-> 1, fn |-> "randomAnimation", at |-> InitialDelay]}
    /\ nextTimer = 2
    /\ displayWrappers = 0
    /\ SettledPage
    /\ NoMobileArt

NextDirector ==
    \/ \E t \in timers, animationType \in animations,
          animDuration \in AnimDurations, nextDelay \in NextDelays :
          RandomAnimation(t, animationType, animDuration, nextDelay)
    \/ \E t \in timers : StopTimer(t)
    \/ Elapse

SpecDirector == InitDirector /\ [][NextDirector]_vars

\* The director's loop without an end. The clock and the host's counters grow
\* without bound, so the loop is followed with the clock set back to 0 after
\* every step and the pending timers and frame callbacks renumbered from 1:
\* this keeps every difference of times and the order of the timers.
rebased ==
    /\ now = 0
    /\ {t.id : t \in timers} = 1..Cardinality(timers)
    /\ nextTimer = Cardinality(timers) + 1
    /\ {cb.handle : cb \in rafQueue} = 1..Cardinality(rafQueue)
    /\ nextHandle = Cardinality(rafQueue) + 1

Rebase ==
    /\ ~rebased
    /\ now' = 0
    /\ timers' = {[id |-> Cardinality({u \in timers : u.id <= t.id}), fn |-> t.fn,
                   at |-> t.at - now] : t \in timers}
    /\ nextTimer' = Cardinality(timers) + 1
    /\ rafQueue' = {[handle |-> Cardinality({c \in rafQueue : c.handle <= cb.handle}),
                     startTime |-> cb.startTime - now] : cb \in rafQueue}
    /\ animationId' = Cardinality({c \in rafQueue : c.handle <= animationId})
    /\ nextHandle' = Cardinality(rafQueue) + 1
    /\ UNCHANGED <<originalLines, lines, currentAnimation, animationFrame, artRegion,
                   lastCall, mobileRegion, lastDisplay, hasMobileArt, displayWrappers,
                   reconcilerVars, regionVars, transportVars, event>>

NextLoop ==
    \/ /\ rebased
       /\ \E t \in timers, animationType \in {"wave", "blink"},
             animDuration \in AnimDurations, nextDelay \in NextDelays :
             RandomAnimation(t, animationType, animDuration, nextDelay)
    \/ /\ rebased
       /\ \E t \in timers : StopTimer(t)
    \/ /\ rebased
       /\ Elapse
    \/ Rebase

\* the host runs a timer that is due, and time passes when none is
SpecLoop == InitDirector /\ [][NextLoop]_vars /\ WF_vars(NextLoop)

\* The director on a page that has the element #ascii-art-mobile: the art has
\* loaded and was mirrored, the first call of randomAnimation is pending
InitMirror ==
    /\ InitReconciler([conv |-> NoId, proc |-> NotStored])
    /\ \E asciiArt \in ArtSources : LoadedScheduler(asciiArt)
    /\ timers = {[id |-> 1, fn |-> "randomAnimation", at |-> InitialDelay]}
    /\ nextTimer = 2
    /\ displayWrappers = 0
    /\ SettledPage
    /\ hasMobileArt = TRUE

NextMirror ==
    \/ \E t \in timers, animationType \in {"wave", "blink"},
          animDuration \in AnimDurations, nextDelay \in NextDelays :
          RandomAnimation(t, animationType, animDuration, nextDelay)
    \/ \E t \in timers : StopTimer(t)
    \/ \E cb \in rafQueue : frameIndex(cb.startTime) <= MaxFrame /\ FrameCallback(cb)
    \/ Elapse

SpecMirror == InitMirror /\ [][NextMirror]_vars

-----------------------------------------------------------------------------
(* The effects as functions of the grid and the frame index (lines 52-81)  *)

\* a column of h rows '|': an art taller than it is wide
RECURSIVE column(_)
column(h) == IF h <= 1 THEN "|" ELSE "|\n" \o column(h - 1)

TallArts == {column(h) : h \in (TallHeight - 2)..TallHeight}

\* the body of frame for the frame index f of the effect animation: the effect
\* computes the frame from the grid and f, displayFrame shows it
ShowEffect(animation, f) ==
    /\ currentAnimation' = animation
    /\ animationFrame' = f
    /\ \E animatedLines \in animatedLinesOf(animation, f) :
          \E r \in {displayFrame(schedulerState, animatedLines)} :
             /\ artRegion' = r.artRegion
             /\ mobileRegion' = r.mobileRegion
             /\ lastDisplay' = r.lastDisplay
    /\ lastCall' = [op |-> "effect", animation |-> animation]
    /\ UNCHANGED <<originalLines, lines, animationId, rafQueue, nextHandle, now,
                   reconcilerVars, directorVars, regionVars, transportVars, event>>

\* every effect on the grid of the served art, at every frame index up to MaxFrame
InitEffects ==
    /\ InitReconciler([conv |-> NoId, proc |-> NotStored])
    /\ \E asciiArt \in ArtSources : LoadedScheduler(asciiArt)
    /\ IdleDirector
    /\ SettledPage
    /\ NoMobileArt

NextEffects == \E animation \in animations, f \in 0..MaxFrame : ShowEffect(animation, f)

SpecEffects == InitEffects /\ [][NextEffects]_vars

\* the effects that draw once per frame or not at all, on the tall grids (glitch
\* and matrix draw per character and work row by row)
InitTall ==
    /\ InitReconciler([conv |-> NoId, proc |-> NotStored])
    /\ \E asciiArt \in TallArts : LoadedScheduler(asciiArt)
    /\ IdleDirector
    /\ SettledPage
    /\ NoMobileArt

NextTall ==
    \E animation \in animations \ {"glitch", "matrix"}, f \in 0..MaxFrame :
       ShowEffect(animation, f)

SpecTall == InitTall /\ [][NextTall]_vars

-----------------------------------------------------------------------------
(* The startup fetch of the art (lines 296-356)                            *)

\* the texts the art region shows when the art cannot be had; the block
\* characters around them are left out
ArtCorrupted == "ERROR: ASCII DATA CORRUPTED"

ArtLost == "CONNECTION LOST"

\* a response of /api/ascii-art has been handled
artSettled(outcome) ==
    artFetch' = [artFetch EXCEPT !.pending = @ - 1, !.outcome = outcome]

\* mutant: the director is started although there is no animator
firstTimer_Always(pending, loaded) ==
    setTimeout(pending, nextTimer, "randomAnimation", InitialDelay)

\* animationTimeout = setTimeout(randomAnimation, 3000), in the branch that has
\* created the animator only
firstTimer(pending, loaded) ==
    IF loaded THEN setTimeout(pending, nextTimer, "randomAnimation", InitialDelay)
    ELSE pending

\* .then(data => { if (data.ascii_art) { ... } }): the animator is created, the
\* grid is shown, the first call of randomAnimation is set
ArtLoaded(asciiArt) ==
    /\ artFetch.pending > 0
    /\ \E a \in {ASCIIAnimator(asciiArt)} :
          /\ originalLines' = a.originalLines
          /\ lines' = a.lines
          /\ artRegion' = join(a.lines)
          /\ mobileRegion' = IF hasMobileArt THEN join(a.lines) ELSE mobileRegion
    /\ lastDisplay' = [art |-> 1, mobile |-> 0]
    /\ timers' = firstTimer(timers, TRUE)
    /\ nextTimer' = nextTimer + 1
    /\ artSettled("loaded")
    /\ UNCHANGED <<hasMobileArt, displayWrappers, currentAnimation, animationId, animationFrame, rafQueue, nextHandle,
                   now, lastCall, reconcilerVars, regionVars, connected,
                   connectionStatus, pendingPolls, event>>

\* the else branch: the response has no ascii_art, or an empty one
ArtMissing ==
    /\ artFetch.pending > 0
    /\ artRegion' = ArtCorrupted
    /\ timers' = firstTimer(timers, FALSE)
    /\ artSettled("missing")
    /\ UNCHANGED <<originalLines, lines, currentAnimation, animationId, animationFrame,
                   rafQueue, nextHandle, now, lastCall, mobileRegion, lastDisplay,
                   nextTimer, hasMobileArt, displayWrappers, reconcilerVars,
                   regionVars, connected, connectionStatus, pendingPolls, event>>

\* .catch(error => ...): the request failed, the body was not JSON, or the
\* constructor threw on an ascii_art that is not a string
ArtFailed ==
    /\ artFetch.pending > 0
    /\ artRegion' = ArtLost
    /\ timers' = firstTimer(timers, FALSE)
    /\ artSettled("failed")
    /\ UNCHANGED <<originalLines, lines, currentAnimation, animationId, animationFrame,
                   rafQueue, nextHandle, now, lastCall, mobileRegion, lastDisplay,
                   nextTimer, hasMobileArt, displayWrappers, reconcilerVars,
                   regionVars, connected, connectionStatus, pendingPolls, event>>

-----------------------------------------------------------------------------
(* The socket's signals and the poll (lines 467-504, 1102-1110)            *)

\* setTimeout(() => { fetchConversations(); }, 1000)
FirstPoll == 1000

\* setInterval(() => fetchConversations(), 3000)
PollInterval == 3000

\* socket.on('connect', ...)
Connect ==
    /\ connected' = TRUE
    /\ connectionStatus' = "ONLINE"
    /\ event' = [channel |-> "connect", data |-> NoUpdate, threw |-> FALSE]
    /\ UNCHANGED <<reconcilerVars, schedulerVars, directorVars, regionVars,
                   pendingPolls, artFetch>>

\* mutant: the signal is logged and the indicator is left alone
offlineText_Kept(text) == text

\* connectionStatus.textContent = 'OFFLINE'
offlineText(text) == "OFFLINE"

\* socket.on('disconnect', ...)
Disconnect ==
    /\ connected' = FALSE
    /\ connectionStatus' = offlineText(connectionStatus)
    /\ event' = [channel |-> "disconnect", data |-> NoUpdate, threw |-> FALSE]
    /\ UNCHANGED <<reconcilerVars, schedulerVars, directorVars, regionVars,
                   pendingPolls, artFetch>>

\* mutant: update events are handled whatever the state of the channel
Update_WhileOffline(data) == ObservedUpdate(data)

\* the socket delivers an update event: only an open channel does
Update(data) ==
    /\ connected
    /\ ObservedUpdate(data)

\* fetch('/api/conversations')
fetchConversations == pendingPolls' = pendingPolls + 1

\* the timer of the initial load runs
FirstFetch(t) ==
    /\ isNextTimer(t)
    /\ t.fn = "firstFetch"
    /\ fetchConversations
    /\ timers' = timers \ {t}
    /\ UNCHANGED <<reconcilerVars, schedulerVars, nextTimer, hasMobileArt,
                   displayWrappers, regionVars, connected,
                   connectionStatus, artFetch, event>>

\* the interval timer runs and is due again one interval later; the model
\* follows it for MaxPolls intervals
PollTimer(t) ==
    /\ isNextTimer(t)
    /\ t.fn = "fetchConversations"
    /\ t.at <= MaxPolls * PollInterval
    /\ fetchConversations
    /\ timers' = (timers \ {t}) \cup {[t EXCEPT !.at = t.at + PollInterval]}
    /\ UNCHANGED <<reconcilerVars, schedulerVars, nextTimer, hasMobileArt,
                   displayWrappers, regionVars, connected,
                   connectionStatus, artFetch, event>>

\* a response of /api/conversations arrives
PollResponse(data) ==
    /\ pendingPolls > 0
    /\ fetchResponse(data)
    /\ pendingPolls' = pendingPolls - 1
    /\ event' = [channel |-> "poll", data |-> withConversations(data),
                 threw |-> updateCurrentConversation(reconcilerState, data.current).threw]

\* mutant: a failed poll is shown as a missing conversation
catchFetchError_Awaiting(st) == renderAwaiting(st)

\* .catch(error => console.error(...)): the error is logged
catchFetchError(st) == st

\* a request of /api/conversations fails
PollFailure ==
    /\ pendingPolls > 0
    /\ \E r \in {catchFetchError(reconcilerState)} :
          /\ currentMessages' = r.cm
          /\ convRegion' = r.dom
          /\ currentConversationId' = r.convId
          /\ processedMessageIds' = r.processed
          /\ lsConversation' = r.lsConv
          /\ lsProcessed' = r.lsProc
          /\ scrollTop' = r.scrollTop
    /\ pendingPolls' = pendingPolls - 1
    /\ event' = [channel |-> "pollFailed", data |-> NoUpdate, threw |-> FALSE]
    /\ UNCHANGED <<historyRegion, snapshot, applyOutcome, autoScroll, clientHeight,
                   schedulerVars, directorVars, regionVars, connected, connectionStatus,
                   artFetch>>

\* the page as DOMContentLoaded leaves it: the art is being fetched, the two
\* poll timers are set, the socket has not connected yet
PageAtLoad ==
    /\ \E stored \in StoredAtLoad : InitReconciler(stored)
    /\ IdleScheduler
    /\ timers = {[id |-> 1, fn |-> "firstFetch", at |-> FirstPoll],
                 [id |-> 2, fn |-> "fetchConversations", at |-> PollInterval]}
    /\ nextTimer = 3
    /\ displayWrappers = 0
    /\ NoMobileArt
    /\ connected = FALSE
    /\ connectionStatus = ""
    /\ pendingPolls = 0
    /\ clientHeight = TallViewport

\* the snapshots of the transport's specification
TransportConversations ==
    {[current |-> NullConversation, history |-> <<>>],
     [current |-> [isNull |-> FALSE, id |-> "c1", hasMessages |-> TRUE,
                   messages |-> <<[agent |-> "OBSERVER", timestamp |-> 1000, content |-> "Hi"]>>],
      history |-> <<OlderEntry>>],
     [current |-> [isNull |-> FALSE, id |-> "c1", hasMessages |-> TRUE,
                   messages |-> <<[agent |-> "EGO", timestamp |-> 1000, content |-> "Hi"]>>],
      history |-> <<>>],
     [current |-> [isNull |-> FALSE, id |-> "c2", hasMessages |-> TRUE,
                   messages |-> <<[agent |-> "EGO", timestamp |-> 1000, content |-> "Hi"],
                                  [agent |-> "OBSERVER", timestamp |-> 2000, content |-> "Hi"]>>],
      history |-> <<>>]}

TransportUpdates ==
    {NoUpdate, [NoUpdate EXCEPT !.stats = StatsOf(7), !.beacon = Feed(<<TweetsEntry>>)]}
    \cup {withConversations(c) : c \in TransportConversations}

\* the startup: the art fetch settles, the director runs if it was started, the
\* socket connects and delivers
InitStartup ==
    /\ InitReconciler([conv |-> NoId, proc |-> NotStored])
    /\ IdleScheduler
    /\ IdleDirector
    /\ connected = FALSE
    /\ connectionStatus = ""
    /\ pendingPolls = 0
    /\ clientHeight = TallViewport
    /\ NoMobileArt

NextStartup ==
    \/ \E asciiArt \in ArtSources : ArtLoaded(asciiArt)
    \/ ArtMissing
    \/ ArtFailed
    \/ \E t \in timers, animationType \in {"wave", "blink"},
          animDuration \in AnimDurations, nextDelay \in NextDelays :
          RandomAnimation(t, animationType, animDuration, nextDelay)
    \/ \E t \in timers : StopTimer(t)
    \/ Elapse
    \/ Connect
    \/ Disconnect
    \/ \E data \in {NoUpdate} : Update(data)

SpecStartup == InitStartup /\ [][NextStartup]_vars

\* the transport: signals, update events, the poll's timers, responses and
\* failures
NextTransport ==
    \/ Connect
    \/ Disconnect
    \/ \E data \in TransportUpdates : Update(data)
    \/ \E t \in timers : FirstFetch(t)
    \/ \E t \in timers : PollTimer(t)
    \/ \E data \in TransportConversations : PollResponse(data)
    \/ PollFailure
    \/ Elapse

SpecTransport == PageAtLoad /\ [][NextTransport]_vars

-----------------------------------------------------------------------------
(* The viewport of the conversation region (lines 447-451)                 *)

\* the largest scrollTop the host allows for the content
maxScrollTop(dom, viewport) == scrollHeight(dom, viewport) - viewport

\* the positions the user scrolls to: the top, the bottom, and between them
\* every half node
ScrollStops(dom, viewport) ==
    {p \in 0..maxScrollTop(dom, viewport) :
        p % (NodeHeight \div 2) = 0 \/ p = maxScrollTop(dom, viewport)}

\* the scroll listener: autoScroll = isAtBottom
scrollListener(top) == autoScroll' = isAtBottom(convRegion, top, clientHeight)

\* the user scrolls the conversation; the listener runs
Scroll(pos) ==
    /\ pos \in ScrollStops(convRegion, clientHeight)
    /\ pos # scrollTop
    /\ scrollTop' = pos
    /\ scrollListener(pos)
    /\ event' = [channel |-> "scroll", data |-> NoUpdate, threw |-> FALSE]
    /\ UNCHANGED <<currentMessages, convRegion, currentConversationId,
                   processedMessageIds, lsConversation, lsProcessed, historyRegion,
                   snapshot, applyOutcome, clientHeight, schedulerVars, directorVars,
                   regionVars, transportVars>>

\* the host lays the region out after its content has shrunk: a scrollTop
\* beyond the range is brought back into it, which is a scroll event
Layout ==
    /\ scrollTop > maxScrollTop(convRegion, clientHeight)
    /\ scrollTop' = maxScrollTop(convRegion, clientHeight)
    /\ scrollListener(maxScrollTop(convRegion, clientHeight))
    /\ event' = [channel |-> "layout", data |-> NoUpdate, threw |-> FALSE]
    /\ UNCHANGED <<currentMessages, convRegion, currentConversationId,
                   processedMessageIds, lsConversation, lsProcessed, historyRegion,
                   snapshot, applyOutcome, clientHeight, schedulerVars, directorVars,
                   regionVars, transportVars>>

\* snapshots of one conversation that grows to three messages, changes one of
\* them and loses another, an empty snapshot, and another conversation
ScrollMsgs ==
    <<[agent |-> "OBSERVER", timestamp |-> 1000, content |-> "Hi"],
      [agent |-> "EGO", timestamp |-> 1000, content |-> "Hi"],
      [agent |-> "OBSERVER", timestamp |-> 2000, content |-> "Hi"]>>

ScrollConversations ==
    {[current |-> c, history |-> <<>>] :
        c \in {NullConversation}
               \cup {[isNull |-> FALSE, id |-> "c1", hasMessages |-> TRUE, messages |-> ms] :
                        ms \in {SubSeq(ScrollMsgs, 1, 2), ScrollMsgs, SubSeq(ScrollMsgs, 2, 3),
                                [ScrollMsgs EXCEPT ![1].content = "Hi there"]}}
               \cup {[isNull |-> FALSE, id |-> "c2", hasMessages |-> TRUE,
                      messages |-> SubSeq(ScrollMsgs, 1, 1)]}}

\* a viewport half a node high
InitScroll ==
    /\ InitReconciler([conv |-> NoId, proc |-> NotStored])
    /\ IdleScheduler
    /\ IdleDirector
    /\ connected = TRUE
    /\ connectionStatus = "ONLINE"
    /\ pendingPolls = 0
    /\ clientHeight = NodeHeight \div 2
    /\ NoMobileArt

NextScroll ==
    \/ \E pos \in ScrollStops(convRegion, clientHeight) : Scroll(pos)
    \/ Layout
    \/ \E data \in ScrollConversations : ObservedResponse(data)
    \/ \E data \in ScrollConversations : Update(withConversations(data))

SpecScroll == InitScroll /\ [][NextScroll]_vars

-----------------------------------------------------------------------------
(* The scheduler and the reconciler side by side                           *)

\* the animator has the art; effects are started and stopped and their frames
\* run while update events and poll responses are handled
InitPage ==
    /\ InitReconciler([conv |-> NoId, proc |-> NotStored])
    /\ \E asciiArt \in ArtSources : LoadedScheduler(asciiArt)
    /\ IdleDirector
    /\ SettledPage
    /\ NoMobileArt

NextPage ==
    \/ \E animationType \in {"wave", "blink"} : StartAnimation(animationType)
    \/ StopAnimation
    \/ \E cb \in rafQueue : FrameCallback(cb)
    \/ Tick
    \/ \E data \in TransportUpdates : Update(data)
    \/ \E data \in TransportConversations : ObservedResponse(data)

SpecPage == InitPage /\ [][NextPage]_vars

-----------------------------------------------------------------------------
(* Properties of the StateReconciler                                       *)

returned == applyOutcome = "returned"

\* the message nodes of a region that carry a given id
nodesWithId(dom, id) == {i \in 1..Len(dom) : dom[i].id = id /\ dom[i].className # "loading-ascii"}

isRendered(dom, id) == nodesWithId(dom, id) # {}

renderedText(dom, id) == dom[CHOOSE i \in nodesWithId(dom, id) : TRUE].text

\* the content a snapshot carries for a key
contentIn(conversation, id) ==
    conversation.messages[CHOOSE i \in 1..Len(conversation.messages) :
                              msgIdOf(conversation.messages[i]) = id].content

\* C1: after a call of updateCurrentConversation has returned, the keys of
\* currentMessages are exactly the composite keys of the messages of the
\* conversation it was given: no stale key, no missing key.
C1_StoreMirrorsSnapshot ==
    returned => DOMAIN currentMessages = keysOf(snapshot)

\* a two-message snapshot mirrored by the store after an earlier conversation
C1_Witness ==
    /\ returned
    /\ Len(snapshot.messages) = 2
    /\ Cardinality(DOMAIN currentMessages) = 2
    /\ currentConversationId = "c2"

\* C2 (as claimed, for two consecutive calls): a key rendered before and after a
\* call is never rendered with shorter content after it.
C2_NeverShorter ==
    [][\A id \in DOMAIN currentMessages :
          (isRendered(convRegion, id) /\ isRendered(convRegion', id))
          => Len(renderedText(convRegion', id)) >= Len(renderedText(convRegion, id))]_vars

\* C2 (amended): the same, for the calls that do no full reset, which are those
\* that leave the remembered conversation id as it was.
C2_NeverShorterWithoutReset ==
    [][currentConversationId' = currentConversationId
       => \A id \in DOMAIN currentMessages :
             (isRendered(convRegion, id) /\ isRendered(convRegion', id))
             => Len(renderedText(convRegion', id)) >= Len(renderedText(convRegion, id))]_vars

\* the rule has acted: a snapshot carried "Hi" for a key that stays rendered as "Hi there"
C2_Witness ==
    /\ returned
    /\ "OBSERVER-1000" \in keysOf(snapshot)
    /\ contentIn(snapshot, "OBSERVER-1000") = "Hi"
    /\ isRendered(convRegion, "OBSERVER-1000")
    /\ renderedText(convRegion, "OBSERVER-1000") = "Hi there"

\* a is an earlier stage of the conversation that b shows: the same id, a
\* non-empty prefix of b's messages by key, none of them with longer content
olderThan(a, b) ==
    /\ ~a.isNull /\ ~b.isNull /\ a.id = b.id /\ a # b
    /\ 1 <= Len(a.messages) /\ Len(a.messages) <= Len(b.messages)
    /\ \A i \in 1..Len(a.messages) :
          /\ msgIdOf(a.messages[i]) = msgIdOf(b.messages[i])
          /\ Len(a.messages[i].content) <= Len(b.messages[i].content)

\* C3 (as claimed): when an older snapshot of the current conversation is
\* processed right after a newer one, every message rendered from the newer one
\* is still rendered, with content no shorter.
C3_StaleSnapshotHarmless ==
    [][(returned /\ returned' /\ olderThan(snapshot', snapshot))
       => \A id \in keysOf(snapshot) :
             /\ isRendered(convRegion', id)
             /\ Len(renderedText(convRegion', id)) >= Len(renderedText(convRegion, id))]_vars

\* C3 (amended): the messages the older snapshot also holds stay rendered with
\* content no shorter; the messages it lacks are garbage-collected.
C3_StaleSnapshotKeepsShared ==
    [][(returned /\ returned' /\ olderThan(snapshot', snapshot))
       => /\ \A id \in keysOf(snapshot') :
                /\ isRendered(convRegion', id)
                /\ Len(renderedText(convRegion', id)) >= Len(renderedText(convRegion, id))
          /\ \A id \in keysOf(snapshot) \ keysOf(snapshot') :
                /\ ~isRendered(convRegion', id)
                /\ id \notin DOMAIN currentMessages']_vars

\* a stale snapshot was processed: what is rendered is longer than what it carries
C3_Witness ==
    /\ returned
    /\ Len(snapshot.messages) = 1
    /\ \E id \in keysOf(snapshot) :
          /\ isRendered(convRegion, id)
          /\ Len(renderedText(convRegion, id)) > Len(contentIn(snapshot, id))

\* the region a conversation renders into when nothing is carried over
freshRegion(conversation) ==
    [i \in 1..Len(conversation.messages) |-> MessageNode(conversation.messages[i])]

\* C4 (as claimed): a call with a conversation whose id differs from the
\* remembered one leaves as many entries as the snapshot has messages, nothing of
\* the previous conversation, and the snapshot's id remembered.
C4_ResetOnIdChange ==
    [][(returned' /\ ~snapshot'.isNull /\ snapshot'.id # currentConversationId)
       => /\ Cardinality(DOMAIN currentMessages') = Len(snapshot'.messages)
          /\ \A i \in messageNodes(convRegion') : convRegion'[i].id \in keysOf(snapshot')
          /\ currentConversationId' = snapshot'.id]_vars

\* C4 (amended): the same for a conversation that has an id and at least one message; the
\* region then holds exactly the snapshot's messages, freshly rendered in order,
\* and the id is persisted with an emptied processed-id set.
C4_ResetOnIdChangeWithMessages ==
    [][(/\ returned' /\ ~isEmptyConversation(snapshot')
        /\ snapshot'.id # NoId /\ snapshot'.id # currentConversationId)
       => /\ Cardinality(DOMAIN currentMessages') = Len(snapshot'.messages)
          /\ convRegion' = freshRegion(snapshot')
          /\ currentConversationId' = snapshot'.id
          /\ lsConversation' = snapshot'.id
          /\ processedMessageIds' = {}
          /\ lsProcessed' = StoredIds({})]_vars

\* a reset has acted: conversation c2 is remembered and persisted, and the key it
\* shares with other conversations shows this snapshot's short text
C4_Witness ==
    /\ returned
    /\ snapshot.id = "c2" /\ currentConversationId = "c2" /\ lsConversation = "c2"
    /\ Len(snapshot.messages) = 2
    /\ convRegion = freshRegion(snapshot)
    /\ lsProcessed = StoredIds({})

\* C5: a key that is in currentMessages before a call and not among the
\* snapshot's messages is, once the call has returned, neither in currentMessages
\* nor rendered.
C5_GarbageCollected ==
    [][returned'
       => \A id \in DOMAIN currentMessages \ keysOf(snapshot') :
             /\ id \notin DOMAIN currentMessages'
             /\ ~isRendered(convRegion', id)]_vars

\* a state only the clean-up reaches: no reset since the page loaded (the stored
\* processed ids are as loaded), no placeholder, and OBSERVER-1000 dropped from
\* the in-memory processed ids
C5_Witness ==
    /\ returned
    /\ lsProcessed = StoredIds({"OBSERVER-1000"})
    /\ processedMessageIds = {}
    /\ Len(convRegion) = 1
    /\ convRegion[1].id = "EGO-1000"

\* C6: a call with the snapshot of the call before it changes nothing: the store,
\* the region, the remembered id and the persisted values stay as they are.
C6_Idempotent ==
    [][(applyOutcome # "none" /\ snapshot' = snapshot)
       => UNCHANGED <<currentMessages, convRegion, currentConversationId,
                      processedMessageIds, lsConversation, lsProcessed, applyOutcome>>]_vars

\* a two-message conversation rendered after a stale first message
C6_Witness ==
    /\ returned
    /\ Len(snapshot.messages) = 2
    /\ Len(convRegion) = 2
    /\ snapshot.messages[1].content = "Ho"
    /\ convRegion[1].text = "Hi there"

\* the composite key as the specification writes it, and as the code builds it
keyWithColon(msg) == msg.agent \o ":" \o NumStr(msg.timestamp)

keyWithDash(msg) == msg.agent \o "-" \o NumStr(msg.timestamp)

\* the ids of a region's message nodes, in document order
idsOf(dom) == [i \in 1..Len(SelectSeq(dom, LAMBDA n : n.className # "loading-ascii")) |->
                  SelectSeq(dom, LAMBDA n : n.className # "loading-ascii")[i].id]

\* one node per message under the key; and without a reset, longer content for
\* a rendered key lands in its node, which keeps its place among the nodes that stay
oneNodePerKey(key(_)) ==
    returned' =>
      \A i \in 1..Len(snapshot'.messages) :
         \A id \in {key(snapshot'.messages[i])} :
            /\ id \in DOMAIN currentMessages'
            /\ Cardinality(nodesWithId(convRegion', id)) = 1
            /\ (/\ currentConversationId' = currentConversationId
                /\ isRendered(convRegion, id)
                /\ Len(snapshot'.messages[i].content) > Len(renderedText(convRegion, id)))
               => /\ renderedText(convRegion', id) = snapshot'.messages[i].content
                  /\ \A kept \in {{k \in DOMAIN currentMessages : isRendered(convRegion', k)}} :
                        SelectSeq(idsOf(convRegion'), LAMBDA k : k \in kept)
                        = SelectSeq(idsOf(convRegion), LAMBDA k : k \in kept)

\* C7 (as claimed): a message of agent a and timestamp t is stored and rendered
\* once under the key a:t, and longer content for it updates that node.
C7_KeyWithColon == [][oneNodePerKey(keyWithColon)]_vars

\* C7 (amended): the same under the key a-t, as in OBSERVER-1000.
C7_KeyWithDash == [][oneNodePerKey(keyWithDash)]_vars

\* the scenario: OBSERVER-1000 first rendered as "Hi" is the one node, now "Hi there"
C7_Witness ==
    /\ returned
    /\ Len(snapshot.messages) = 1
    /\ snapshot.messages[1] = [agent |-> "OBSERVER", timestamp |-> 1000, content |-> "Hi there"]
    /\ Len(convRegion) = 1
    /\ convRegion[1].id = "OBSERVER-1000"
    /\ convRegion[1].text = "Hi there"
    /\ DOMAIN currentMessages = {"OBSERVER-1000"}

\* C8: a call with a null conversation, one without a messages field or one with
\* no messages leaves the placeholder alone in the region and the store empty.
C8_EmptyShowsPlaceholder ==
    (returned /\ isEmptyConversation(snapshot))
    => /\ convRegion = <<Placeholder>>
       /\ currentMessages = <<>>

\* a null conversation arrived while conversation c2 was shown
C8_Witness ==
    /\ returned
    /\ snapshot.isNull
    /\ currentConversationId = "c2"
    /\ convRegion = <<Placeholder>>

-----------------------------------------------------------------------------
(* Properties of the AnimationScheduler                                    *)

\* C9: at most one frame callback is pending, it is the one the animator holds
\* the handle of, and while no animation runs none is pending; after a start the
\* pending callback is the one that start has just registered: a start or a stop
\* leaves no callback of an earlier loop behind.
C9_OnePendingFrame ==
    /\ Cardinality(rafQueue) <= 1
    /\ \A cb \in rafQueue : cb.handle = animationId
    /\ currentAnimation = "" => rafQueue = {}
    /\ lastCall.op \in {"start", "restart"}
          => \E cb \in rafQueue : cb.handle = nextHandle - 1 /\ cb.startTime <= now

\* an animation was started while another one was running
C9_Witness ==
    /\ lastCall.op = "restart"
    /\ Cardinality(rafQueue) = 1
    /\ nextHandle = 3

\* C10: after stop() the art region shows the padded grid the constructor built
\* from the art, row for row, and the animator's grid is that grid.
C10_StopRestoresGrid ==
    lastCall.op = "stop"
    => /\ artRegion = join([i \in 1..Len(originalLines) |->
                              padEnd(originalLines[i], maxLength(originalLines))])
       /\ lines = [i \in 1..Len(originalLines) |->
                      padEnd(originalLines[i], maxLength(originalLines))]

\* wave was stopped after it had displayed a frame of index 1 or more
C10_Witness ==
    /\ lastCall = [op |-> "stop", animation |-> "wave"]
    /\ animationFrame >= 1
    /\ artRegion = "o \n/|"

\* a step in which the host ran a frame callback
frameShown == lastCall'.op = "frame" /\ nextHandle' = nextHandle + 1

\* C11: the scheduler is Idle after stop() and Running(e) after start(e), from
\* Idle or from Running(a); after stop() nothing is displayed until the next
\* start, which finds the scheduler Idle; and a frame is only ever displayed
\* while Running(e), computed by e from the time of the latest start.
C11_StateMachine ==
    [][/\ lastCall'.op = "stop" => currentAnimation' = "" /\ rafQueue' = {}
       /\ lastCall'.op \in {"start", "restart"} => currentAnimation' = lastCall'.animation
       /\ lastCall.op = "stop"
             => /\ lastCall'.op \in {"stop", "start"}
                /\ lastCall'.op = "stop" => artRegion' = artRegion
       /\ frameShown
             => /\ currentAnimation # "" /\ currentAnimation' = currentAnimation
                /\ \E cb \in rafQueue :
                      /\ animationFrame' = frameIndex(cb.startTime)
                      /\ artRegion' \in {join(rows) :
                             rows \in animatedLinesOf(currentAnimation, frameIndex(cb.startTime))}
                /\ lastCall.op \in {"start", "restart", "frame"}
                /\ lastCall.animation = currentAnimation]_vars

\* blink replaced a running animation and then displayed a frame of its own
C11_Witness ==
    /\ lastCall = [op |-> "frame", animation |-> "blink"]
    /\ currentAnimation = "blink"
    /\ nextHandle = 4
    /\ artRegion = "- \n/|"

\* a step in which a timer of the director called stopAnimation
directorStops == lastCall'.op = "stop" /\ timers' # timers

\* C12: every effect the director starts runs for at least 5 seconds before
\* stop is called on it: when a timer of the director stops a running effect,
\* at least 5000 ms have passed since that effect was started.
C12_RunsFiveSeconds ==
    [][directorStops /\ currentAnimation # ""
          => \A cb \in rafQueue : now - cb.startTime >= 5000]_vars

\* a step in which the director's randomAnimation called startAnimation
directorStarts == lastCall'.op \in {"start", "restart"} /\ nextTimer' # nextTimer

\* C13: the director is sequential: when it calls start, the stop of the effect
\* it started before has already been called: no stop timer is still pending
\* and no effect is running.
C13_Sequential ==
    [][directorStarts
          => /\ currentAnimation = ""
             /\ \A t \in timers : t.fn # "stopAnimation"]_vars

\* the rows of the text on display
shownRows == split(artRegion)

\* an effect has just been computed and displayed
effectShown == lastCall.op = "effect"

\* C14: every frame of wave, glitch, matrix and blink has exactly height rows
\* of exactly width characters, on every grid and at every frame index.
C14_ExactSize ==
    effectShown /\ currentAnimation \in {"wave", "glitch", "matrix", "blink"}
        => /\ Len(shownRows) = height
           /\ \A y \in 1..Len(shownRows) : Len(shownRows[y]) = width

\* C15: every frame of every effect has at most height rows, on every grid and
\* at every frame index.
C15_AtMostHeightRows ==
    effectShown => Len(shownRows) <= height

\* the update event or poll response handled last, and its data
pushed == event.channel = "push"

polled == event.channel = "poll"

\* the texts the counter shows for the counts the events carry
renderedCounts == {"007", "012"}

\* region lists exactly the entries of history, or the placeholder for none
showsHistory(region, history) ==
    IF Len(history) = 0 THEN region = <<HistoryPlaceholder>>
    ELSE /\ Len(region) = Len(history)
         /\ \A i \in 1..Len(history) :
               /\ region[i].className = "history-item"
               /\ region[i].topic = history[i].topic
               /\ region[i].status = history[i].status
               /\ region[i].count = history[i].message_count

\* region holds the placeholder for a feed without entries, and otherwise only
\* nodes of entries of the feed
showsFeed(region, feed) ==
    IF ~feed.present \/ Len(feed.entries) = 0 THEN region = <<BeaconStatic>>
    ELSE \A i \in 1..Len(region) :
            \E k \in 1..Len(feed.entries) :
               /\ ~feed.entries[k].isNull
               /\ region[i] = beaconEntry(feed.entries[k])

\* an entry of the feed or the plan of the event raises an exception, so that the
\* handler is left before updateStats
leftBeforeStats(data) ==
    \/ \E k \in 1..Len(data.beacon.entries) : beaconThrows(data.beacon.entries[k])
    \/ data.dominance_plan.present /\ planThrows(data.dominance_plan)

\* C16 as claimed: after an update event, handled to its end, the counter shows
\* the count of that event and, when the event has no stats, no count of an
\* earlier event.
C16_FullyReplaced ==
    pushed /\ ~event.threw
        => IF event.data.stats.hasCount
           THEN beaconCountText = padStart(NumStr(event.data.stats.beacon_count), 3, "0")
           ELSE beaconCountText \notin renderedCounts

\* C16, amended: every update event replaces the beacon feed by nodes of its
\* own feed or by the placeholder; every poll response, and every update event
\* with conversations whose handler gets that far, replaces the history list by
\* the entries of its own history or by the placeholder, and every other event
\* leaves the history list alone; the counter and the status widgets are written
\* only from the fields the event has and otherwise keep what they showed.
C16_ReplacedOrKept ==
    [][/\ pushed' => showsFeed(beaconRegion', event'.data.beacon)
       /\ polled' => beaconRegion' = beaconRegion
       /\ IF event'.data.hasConversations /\ ~event'.threw
          THEN showsHistory(historyRegion', event'.data.conversations.history)
          ELSE historyRegion' = historyRegion
       /\ IF pushed' /\ ~leftBeforeStats(event'.data) /\ event'.data.stats.hasCount
          THEN beaconCountText' = padStart(NumStr(event'.data.stats.beacon_count), 3, "0")
          ELSE beaconCountText' = beaconCountText
       /\ IF pushed' /\ ~leftBeforeStats(event'.data) /\ event'.data.system_status.phase # ""
          THEN phaseWidget'.text = event'.data.system_status.phase
          ELSE phaseWidget' = phaseWidget
       /\ IF pushed' /\ ~leftBeforeStats(event'.data) /\ event'.data.system_status.hasUrge
          THEN urgeWidget'.text \in {event'.data.system_status.frustration_level, "NEUTRAL"}
          ELSE urgeWidget' = urgeWidget]_vars

\* an update event without stats and without status has been handled to its end
\* and the widgets still show the count and the phase of an earlier event
C16_Witness ==
    /\ pushed /\ ~event.threw
    /\ ~event.data.stats.present /\ ~event.data.system_status.present
    /\ beaconCountText = "007"
    /\ phaseWidget.text = "SELF_DIRECTED"
    /\ beaconRegion = <<BeaconStatic>>
    /\ historyRegion = <<historyItem(OlderEntry)>>

\* C17: the history region shows exactly the history of the event handled last
\* among those carrying conversations, whichever channel delivered it: an event
\* with conversations leaves its history on display, any other event leaves the
\* region alone.
C17_LastHistoryWins ==
    [][IF event'.data.hasConversations
       THEN showsHistory(historyRegion', event'.data.conversations.history)
       ELSE historyRegion' = historyRegion]_vars

\* the parts of the plan region with a label
partsOf(region, label) == {i \in 1..Len(region) : region[i].label = label}

\* region has the protocol layout of plan: no token header, the mission and the
\* hypothesis the plan has, phases of them; the box when nothing is to show
showsProtocol(region, plan, phases) ==
    IF plan.mission = "" /\ plan.escape_hypothesis = "" /\ phases = 0
    THEN region = AwaitingProtocol
    ELSE /\ partsOf(region, "TOKEN") = {}
         /\ plan.mission # "" <=> \E i \in partsOf(region, "MISSION") : region[i].text = plan.mission
         /\ plan.escape_hypothesis # ""
               <=> \E i \in partsOf(region, "HYPOTHESIS") : region[i].text = plan.escape_hypothesis
         /\ Cardinality(partsOf(region, "PHASE")) = phases

\* region has the legacy layout of plan: the header of the token, then the phases
showsLegacy(region, plan) ==
    /\ Len(region) = 1 + Len(plan.phases)
    /\ region[1].label = "TOKEN"
    /\ SubSeq(region[1].text, 1, Len(plan.token_name)) = plan.token_name
    /\ partsOf(region, "MISSION") = {}

\* the mark of a protocol plan, and of a legacy plan
hasProtocolMark(plan) == plan.mission # "" \/ plan.protocol = "dominance_protocol"

hasTokenName(plan) == plan.token_name # ""

\* C18 as claimed: after an update event, handled to its end, a plan with a
\* mission or the protocol tag is shown in the protocol layout, any other plan
\* with a token name in the legacy layout, and for every other plan a
\* placeholder is shown.
C18_DispatchPriority ==
    pushed /\ ~event.threw
        => IF ~event.data.dominance_plan.present THEN planRegion = AwaitingConsensus
           ELSE IF hasProtocolMark(event.data.dominance_plan)
           THEN showsProtocol(planRegion, event.data.dominance_plan,
                              Len(event.data.dominance_plan.phases))
           ELSE IF hasTokenName(event.data.dominance_plan)
           THEN showsLegacy(planRegion, event.data.dominance_plan)
           ELSE planRegion \in {AwaitingConsensus, AwaitingProtocol}

\* the smaller of two numbers
min(a, b) == IF a < b THEN a ELSE b

\* C18, amended: a plan with a mission or the protocol tag is shown in the
\* protocol layout even if it has a token name; any other plan with a token name
\* is shown in the legacy layout; a plan that is there with neither is shown in
\* the protocol layout cut to its first two phases (the AWAITING PROTOCOL box
\* when it has nothing to show); only a missing plan gets the AWAITING CONSENSUS
\* placeholder.  A token name that is not a string, and a null among the first
\* two phases of a plan with neither mark, leave the region as it was.
C18_DispatchWithReducedLayout ==
    [][pushed'
         => IF ~event'.data.dominance_plan.present THEN planRegion' = AwaitingConsensus
            ELSE IF hasProtocolMark(event'.data.dominance_plan)
            THEN showsProtocol(planRegion', event'.data.dominance_plan,
                               Len(event'.data.dominance_plan.phases))
            ELSE IF hasTokenName(event'.data.dominance_plan)
            THEN IF event'.data.dominance_plan.tokenIsString
                 THEN showsLegacy(planRegion', event'.data.dominance_plan)
                 ELSE planRegion' = planRegion
            ELSE IF \E i \in 1..min(2, Len(event'.data.dominance_plan.phases)) :
                       event'.data.dominance_plan.phases[i].isNull
                 THEN planRegion' = planRegion
                 ELSE showsProtocol(planRegion', event'.data.dominance_plan,
                                    min(2, Len(event'.data.dominance_plan.phases)))]_vars

\* a plan with a mission and a token name is on display in the protocol layout
C18_Witness ==
    /\ pushed /\ ~event.threw
    /\ event.data.dominance_plan.mission = "escape"
    /\ event.data.dominance_plan.token_name = "GROK"
    /\ event.data.dominance_plan.protocol = ""
    /\ planRegion[1] = planPart("plan-header", "MISSION", "escape")
    /\ partsOf(planRegion, "TOKEN") = {}

\* the entries of a feed that are not error beacons, in feed order
notErrorBeacons(entries) == SelectSeq(entries, LAMBDA beacon : ~isErrorBeacon(beacon))

\* node shows the entry
rendersEntry(node, beacon) ==
    /\ node.className = "beacon-entry"
    /\ node.formatted = beacon.formatted
    /\ beacon.formatted = "" /\ beacon.hasTweets => Len(node.posts) = Len(beacon.tweets)

\* C19: after an update event with a feed of entries, the beacon region has one
\* node for every entry that is not an error beacon, in feed order, and no node
\* for an error beacon.
C19_ErrorsSuppressed ==
    pushed /\ Len(event.data.beacon.entries) > 0
        => /\ Len(beaconRegion) = Len(notErrorBeacons(event.data.beacon.entries))
           /\ \A i \in 1..Len(beaconRegion) :
                 rendersEntry(beaconRegion[i], notErrorBeacons(event.data.beacon.entries)[i])

\* C20: an update event with a malformed or partial plan or beacon entry is
\* handled to its end, and its stats, status and conversations are applied.
C20_MalformedTolerated ==
    pushed
        => /\ ~event.threw
           /\ event.data.stats.hasCount
                 => beaconCountText = padStart(NumStr(event.data.stats.beacon_count), 3, "0")
           /\ event.data.system_status.phase # ""
                 => phaseWidget.text = event.data.system_status.phase
           /\ event.data.hasConversations
                 => /\ snapshot = event.data.conversations.current
                    /\ showsHistory(historyRegion, event.data.conversations.history)

-----------------------------------------------------------------------------
(* Properties of the startup and of the transport                          *)

artNotHad == artFetch.outcome \in {"missing", "failed"}

\* C21: once the startup fetch of the art has failed or has returned no art,
\* the art region shows one of the two fixed error texts, no further request
\* of the art is issued, no animator exists, and the director starts no
\* animation: no call of randomAnimation is pending, nothing runs, no frame
\* callback is queued.
C21_NoArtNoDirector ==
    artNotHad =>
        /\ artRegion \in {ArtCorrupted, ArtLost}
        /\ artFetch.issued = 1 /\ artFetch.pending = 0
        /\ originalLines = <<>> /\ lines = <<>>
        /\ \A t \in timers : t.fn # "randomAnimation"
        /\ currentAnimation = "" /\ rafQueue = {} /\ lastCall.op = "none"

\* the fetch has failed and the page has lived on: the socket has connected
\* and has delivered an update event
C21_Witness ==
    /\ artFetch.outcome = "failed"
    /\ artRegion = ArtLost
    /\ event.channel = "push"

\* a step in which a request of /api/conversations fails
pollFails == pendingPolls' < pendingPolls /\ event'.channel = "pollFailed"

\* C22: a failed poll is only logged. The step leaves currentMessages, the
\* processed ids and their persisted copy, the conversation region, the
\* history region and the remembered conversation id as they were, and it
\* leaves the timers alone: the interval timer is still pending, no more than
\* one interval ahead, at a multiple of the interval since the page load.
C22_FailedPollOnlyLogged ==
    [][pollFails =>
          /\ UNCHANGED <<currentMessages, processedMessageIds, lsProcessed, convRegion,
                         historyRegion, currentConversationId, lsConversation, scrollTop>>
          /\ timers' = timers
          /\ \E t \in timers' : /\ t.fn = "fetchConversations"
                                /\ t.at - now' <= PollInterval
                                /\ t.at % PollInterval = 0]_vars

\* a poll has failed while a conversation and a history were on display, and
\* the interval timer has issued the next request
C22_Witness ==
    /\ event.channel = "pollFailed"
    /\ DOMAIN currentMessages # {}
    /\ \E i \in 1..Len(historyRegion) : historyRegion[i].className # "loading-ascii"
    /\ now = 2 * PollInterval
    /\ pendingPolls > 0

\* C23: the indicator follows the socket's signals and nothing else. A connect
\* signal leaves it at ONLINE, a disconnect signal at OFFLINE, whatever it
\* showed before; every other step (update event, poll timer, poll response,
\* poll failure, passing time) leaves it as it was, so that it shows ONLINE
\* exactly when the latest signal was connect and OFFLINE exactly when the
\* latest signal was disconnect.
C23_IndicatorFollowsSignals ==
    [][/\ event'.channel = "connect" => connectionStatus' = "ONLINE" /\ connected'
       /\ event'.channel = "disconnect" => connectionStatus' = "OFFLINE" /\ ~connected'
       /\ event'.channel \notin {"connect", "disconnect"} =>
             connectionStatus' = connectionStatus /\ connected' = connected]_vars

\* after connect and disconnect a poll response has been applied: the
\* indicator still shows OFFLINE
C23_Witness ==
    /\ event.channel = "poll"
    /\ DOMAIN currentMessages # {}
    /\ beaconRegion # <<>>
    /\ connectionStatus = "OFFLINE"

\* the indicator shows OFFLINE and the socket is closed
offline == ~connected /\ connectionStatus = "OFFLINE"

\* C24: while the indicator is offline, from the disconnect signal to the next
\* connect signal, no snapshot is applied: currentMessages, the conversation
\* region, the history region and the regions of the update event stay as
\* they were.
C24_OfflineNoApply ==
    [][offline /\ offline' =>
          UNCHANGED <<currentMessages, convRegion, historyRegion, snapshot, applyOutcome,
                      beaconRegion, planRegion, beaconCountText, phaseWidget,
                      urgeWidget>>]_vars

\* C24, amended: while the indicator is offline no update event is handled, so
\* the beacon feed, the plan, the counter and the status widgets stay as they
\* were; the poll goes on, and a step that changes currentMessages, the
\* conversation region or the history region while offline is the handling of
\* a poll response.
C24_OfflineOnlyPollApplies ==
    [][offline /\ offline' =>
          /\ UNCHANGED <<beaconRegion, planRegion, beaconCountText, phaseWidget, urgeWidget>>
          /\ event'.channel # "push"
          /\ (<<currentMessages, convRegion, historyRegion, snapshot, applyOutcome>>' #
              <<currentMessages, convRegion, historyRegion, snapshot, applyOutcome>>
                => event'.channel = "poll" /\ pendingPolls' = pendingPolls - 1)]_vars

\* offline, after an update event had filled the beacon feed: a poll response
\* has replaced the conversation and the history
C24_Witness ==
    /\ offline
    /\ event.channel = "poll"
    /\ beaconRegion # <<>>
    /\ snapshot.id = "c2"
    /\ Len(convRegion) = 2

schedulerSide ==
    <<originalLines, lines, currentAnimation, animationId, animationFrame, rafQueue,
      nextHandle, artRegion>>

reconcilerSide ==
    <<currentMessages, processedMessageIds, lsProcessed, currentConversationId,
      convRegion, historyRegion, beaconRegion, planRegion, beaconCountText,
      phaseWidget, urgeWidget, scrollTop>>

\* C26: the scheduler and the reconciler write disjoint regions. No step
\* changes both sides; the handling of an update event or of a poll response
\* leaves the art region and the scheduler's fields as they were; a start, a
\* stop, a frame callback and the passing of time leave currentMessages and
\* the conversation, history, beacon, plan, counter and status regions as
\* they were, in every interleaving.
C26_DisjointRegions ==
    [][/\ UNCHANGED schedulerSide \/ UNCHANGED reconcilerSide
       /\ event' # event => UNCHANGED <<schedulerSide, now, lastCall>>
       /\ lastCall' # lastCall \/ rafQueue' # rafQueue \/ now' # now =>
             UNCHANGED <<reconcilerSide, event>>]_vars

\* an effect is running with a frame callback pending, its frame is on
\* display, and a conversation, a history and a beacon feed are rendered
C26_Witness ==
    /\ currentAnimation = "wave"
    /\ lastCall.op = "frame"
    /\ rafQueue # {}
    /\ artRegion # join(lines)
    /\ DOMAIN currentMessages # {}
    /\ beaconRegion # <<>>
    /\ event.channel = "poll"

\* a snapshot is applied in the step
applies == event'.channel \in {"push", "poll"}

showsFrame == nextHandle' # nextHandle

\* the callback the loop has pending in a state
liveCallbacks(queue, id) == {cb \in queue : cb.handle = id}

\* C28: every frame of a run is shown with the index
\* floor((now - startTime) / 50 ms), where startTime is the time of the start:
\* the frame shown by the start itself has index 0, a later frame of the same
\* run never has a smaller index than the one before, and the index is a
\* function of the elapsed time alone, whatever the number of frame callbacks
\* that have run.
C28_FrameIndexFromElapsedTime ==
    [][showsFrame =>
          \A cb \in liveCallbacks(rafQueue', animationId') :
             /\ animationFrame' = (now' - cb.startTime) \div 50
             /\ lastCall'.op \in {"start", "restart"} =>
                   cb.startTime = now' /\ animationFrame' = 0
             /\ lastCall'.op = "frame" =>
                   /\ liveCallbacks(rafQueue, animationId) # {}
                   /\ \A old \in liveCallbacks(rafQueue, animationId) :
                         cb.startTime = old.startTime /\ animationFrame' >= animationFrame]_vars

\* the third frame of a run is shown 50 ms after its start, with index 1
C28_Witness ==
    /\ lastCall.op = "frame"
    /\ currentAnimation # ""
    /\ nextHandle = 4
    /\ animationFrame = 1

\* the frame the claim describes for the jitters x and v: all rows shifted by
\* x, v blank rows above them, the first height rows of that
shakenBy(x, v) ==
    firstRows(blankRows(v) \o [y \in 1..Len(lines) |-> shiftRow(lines[y], x)], height)

\* C29: every frame of shake is the grid with all rows shifted by one
\* horizontal jitter of -2..2 and with as many blank rows above as one
\* vertical jitter of 0..2 says, cut to height rows: it has exactly height
\* rows, each of exactly width characters.
C29_ShakeKeepsSize ==
    effectShown /\ currentAnimation = "shake" =>
        /\ \E x \in -2..2, v \in 0..2 : shownRows = shakenBy(x, v)
        /\ Len(shownRows) = height
        /\ \A y \in 1..Len(shownRows) : Len(shownRows[y]) = width

running == currentAnimation # ""

directorStarted == lastCall.op \in {"start", "restart"}

directorStopped == lastCall.op = "stop"

\* C30: once the art has loaded the director's loop neither ends nor stalls.
\* When the host runs the timers that are due, every start is followed by a
\* stop and every stop by another start, so that the scheduler is idle again
\* and again and running again and again.
C30_DirectorNeverStalls ==
    /\ directorStarted ~> directorStopped
    /\ directorStopped ~> directorStarted
    /\ []<>(~running)
    /\ []<>running

\* an effect has been started from idle while the stop timer of an earlier
\* effect is still pending beside its own: the loop has gone round
C30_Witness ==
    /\ lastCall.op = "start"
    /\ running
    /\ Cardinality({t \in timers : t.fn = "stopAnimation"}) = 2
    /\ \E t \in timers : t.fn = "randomAnimation"

-----------------------------------------------------------------------------
(* Properties of the rendered conversation                                 *)

\* the place of a key's first message node in a region
firstNode(dom, id) == CHOOSE i \in nodesWithId(dom, id) : \A j \in nodesWithId(dom, id) : i <= j

\* C31: after a call has returned, the rendered message nodes stand in the
\* region in the same relative order as their messages stand in the array of
\* the snapshot, whatever snapshots of the conversation came before.
C31_OrderFollowsSnapshot ==
    returned =>
      \A i, j \in 1..Len(snapshot.messages) :
         (/\ i < j
          /\ isRendered(convRegion, msgIdOf(snapshot.messages[i]))
          /\ isRendered(convRegion, msgIdOf(snapshot.messages[j])))
         => firstNode(convRegion, msgIdOf(snapshot.messages[i]))
            < firstNode(convRegion, msgIdOf(snapshot.messages[j]))

\* C32: after every call, left by a return or by an exception, every key of
\* currentMessages has exactly one message node with that id in the region,
\* and every message node of the region has its id among the keys.
C32_StoreMatchesRegion ==
    applyOutcome # "none" =>
      /\ \A id \in DOMAIN currentMessages : Cardinality(nodesWithId(convRegion, id)) = 1
      /\ \A i \in messageNodes(convRegion) : convRegion[i].id \in DOMAIN currentMessages

\* C33: whenever a call returns for a snapshot with at least one message, the
\* region holds message nodes only: the placeholder that an earlier empty
\* snapshot has written is gone, also when the conversation id is the one
\* remembered since before the empty snapshot.
C33_PlaceholderGone ==
    (returned /\ ~isEmptyConversation(snapshot))
    => messageNodes(convRegion) = 1..Len(convRegion)

-----------------------------------------------------------------------------
(* Properties of the display hook                                          *)

\* C34: the work of one displayed frame stays bounded over the director's
\* lifetime. After any number of cycles the hook has been wrapped once at
\* most, and a call of displayFrame writes the art region once and the mobile
\* mirror at most once.
C34_OneMirrorWritePerFrame ==
    /\ displayWrappers <= 1
    /\ lastDisplay.art <= 1
    /\ lastDisplay.mobile <= 1

-----------------------------------------------------------------------------
(* Properties of an update event without conversations                     *)

\* the step handles an update event that has no conversations field
pushesNoConversations == event'.channel = "push" /\ ~event'.data.hasConversations

\* the dialogue side stays as it was
keepsDialogue ==
    UNCHANGED <<currentMessages, convRegion, historyRegion, currentConversationId>>

\* the beacon feed, the counter and the status of the event are on display
appliesRegions ==
    /\ showsFeed(beaconRegion', event'.data.beacon)
    /\ event'.data.stats.hasCount
          => beaconCountText' = padStart(NumStr(event'.data.stats.beacon_count), 3, "0")
    /\ event'.data.system_status.phase # ""
          => phaseWidget'.text = event'.data.system_status.phase
    /\ event'.data.system_status.hasUrge
          => urgeWidget'.text \in {event'.data.system_status.frustration_level, "NEUTRAL"}

\* C35: an update event without a conversations field leaves currentMessages,
\* the rendered conversation, the history region and the remembered
\* conversation id as they were, and its beacon, plan, stats and status data
\* are applied all the same.
C35_NoConversationsStillApplied ==
    [][pushesNoConversations => keepsDialogue /\ appliesRegions]_vars

-----------------------------------------------------------------------------
(* Properties of the remembered conversation id                            *)

\* C36: in every reachable state window.currentConversationId equals the id
\* kept in localStorage: it is read from there at load, a step that changes
\* one of the two changes both to the id of the conversation applied, and the
\* handling of an empty snapshot changes neither.
C36_RememberedIdIsPersisted ==
    /\ currentConversationId = lsConversation
    /\ [][/\ currentConversationId' = lsConversation'
          /\ currentConversationId' # currentConversationId
                => /\ snapshot'.id = currentConversationId'
                   /\ lsConversation' # lsConversation
          /\ isEmptyConversation(snapshot')
                => UNCHANGED <<currentConversationId, lsConversation>>]_vars

\* the id read at load was replaced by a full reset, and an empty snapshot
\* after that has left both copies of the new id alone
C36_Witness ==
    /\ returned
    /\ isEmptyConversation(snapshot)
    /\ convRegion = <<Placeholder>>
    /\ currentConversationId = "c2"
    /\ lsConversation = "c2"
    /\ lsProcessed = StoredIds({})
====
